---- MODULE Spec2Model ----
(***************************************************************************)
(* A model of ChainSync-Agents: the webhook rate limiter                   *)
(* (chainsync/security.py), the retrying HTTP call discipline              *)
(* (chainsync/api_clients.py) and the alert webhook handler                *)
(* (chainsync/webhook_server.py, chainsync/agent_orchestrator.py).         *)
(*                                                                         *)
(* The specifications of the module:                                      *)
(*   SpecRate     rate_limit_check over the in-memory store and a clock    *)
(*   SpecRetry    one run of retry_with_backoff over every outcome sequence*)
(*   SpecRetryFair  SpecRetry, the run always taking its next step         *)
(*   Spec         concurrent alert webhook requests through the handler    *)
(*   SpecGate     one alert webhook request with any headers               *)
(*   SpecAuth     the security functions, one call at a time               *)
(*   SpecParallel one call of execute_parallel_agents                      *)
(*   SpecWorkflow runs of the multi-agent workflows                        *)
(*   SpecClient   the operations of the external service clients           *)
(*   SpecAssess   urgency, duration and attendees of MeetingContextAgent   *)
(*   SpecMeeting  the stored contexts of MeetingContextAgent               *)
(*   SpecStores   the in-memory and the Redis rate limit store, side by side*)
(*   SpecTwin     two runs of one sequence of rate_limit_check calls       *)
(*   SpecRoute    route_request calls and their learning tasks             *)
(***************************************************************************)
EXTENDS Integers, Sequences, FiniteSets, TLC

VARIABLES
    store,        \* InMemoryRateLimitStore.store: client ip -> list of timestamps
    now,          \* the wall clock time.time(), in ticks
    rl_cfg,       \* the max_requests / window_seconds the limiter is called with
    admitted,     \* history: the admitted timestamps still inside the window, per ip
    rl_last,      \* history: the last rate_limit_check call and its outcome
    was_rejected, \* history: the client ips that ever received a 429
    rt,           \* the local state of one retry_with_backoff run
    cfg,          \* Config: the keys that are set (None: not set)
    req,          \* per webhook request: where its handler is, and its locals
    alerts_db,    \* the rows of table alerts
    meetings_db,  \* the rows of table meetings
    webhook_logs, \* the rows of table webhook_logs
    slotify,      \* the meetings that exist in the external scheduling service
    chainsync,    \* the status updates and comments the alerting service holds
    learning_history, \* ContinuousLearningAgent.learning_history
    auth,         \* the last call of a security function, and the signature
                  \* a webhook client generated
    par,          \* one call of execute_parallel_agents: its tasks and results
    wf,           \* one run of a multi-agent workflow: the agent calls made
    mctx,         \* MeetingContextAgent: its stored contexts and last answer
    client,       \* one operation of an external service client
    stores,       \* the two rate limit stores, given the same calls
    twin,         \* two runs of one sequence of rate_limit_check calls
    route         \* the route_request calls of one orchestrator

rateVars == <<store, now, rl_cfg, admitted, rl_last, was_rejected>>
retryVars == <<rt>>
webVars == <<cfg, req, alerts_db, meetings_db, webhook_logs, slotify, chainsync,
             learning_history>>
authVars == <<auth>>
orchVars == <<par, wf, mctx, client>>
extVars == <<stores, twin, route>>
vars == <<store, now, rl_cfg, admitted, rl_last, was_rejected, rt, cfg, req,
          alerts_db, meetings_db, webhook_logs, slotify, chainsync,
          learning_history, auth, par, wf, mctx, client,
          stores, twin, route>>

None == "none"

\* nothing has been asked of the orchestrator, the meeting context agent or
\* the service clients
Unused == [pc |-> "unused"]
IdleOrch == par = Unused /\ wf = Unused /\ mctx = Unused /\ client = Unused
IdleExt == stores = Unused /\ twin = Unused /\ route = Unused

(***************************************************************************)
(* Bounds of the model.                                                    *)
(***************************************************************************)
\* ticks of the clock per second: timestamps are floats, a tick is a fraction
TicksPerSecond == 2
\* the clock stops at MaxTime ticks
MaxTime == 3
\* rate_limit_check is run with max_requests in 1..MaxRateRequests
MaxRateRequests == 2
\* and with window_seconds in 1..MaxWindowSeconds
MaxWindowSeconds == 1
\* retry_with_backoff is run with max_retries in 0..MaxRetriesBound
MaxRetriesBound == 3
\* the number of alert webhook requests, handled concurrently
NumRequests == 2
\* the handler's max_requests (the default, 100), scaled to the requests modelled
HandlerMaxRequests == 1
\* signatures are generated and verified within SigSlack seconds of time 0 and
\* of the end of the timestamp window
SigSlack == 1

\* the tasks of one execute_parallel_agents call are at most MaxTasks
MaxTasks == 3

\* MaxRuns workflow runs share the orchestrator; a compliance check reports
\* at most MaxViolations violations
MaxRuns == 2
MaxViolations == 2

\* an alert names at most MaxSystems affected systems
MaxSystems == 4

IPs == {"ip1", "ip2"}

(***************************************************************************)
(* Helpers on sequences.                                                   *)
(***************************************************************************)
Range(s) == {s[i] : i \in DOMAIN s}

MinOf(S) == CHOOSE x \in S : \A y \in S : x <= y

MaxNat(a, b) == IF a >= b THEN a ELSE b

MinNat(a, b) == IF a <= b THEN a ELSE b

(***************************************************************************)
(* The rate limiter: InMemoryRateLimitStore and rate_limit_check.          *)
(* A store is a function from the ips that are keys of the dict to their   *)
(* lists of timestamps.                                                    *)
(***************************************************************************)
WindowTicks(window_seconds) == window_seconds * TicksPerSecond

\* the list comprehension of get_requests and cleanup_old_entries:
\* [ts for ts in lst if current_time - ts < window_seconds]
RecentOf(lst, current_time, window_seconds) ==
    SelectSeq(lst, LAMBDA ts : current_time - ts < WindowTicks(window_seconds))

\* the window is read before the latest append of another handler: the
\* newest timestamp is missing from what the limit test sees
GetRequestsStale(st, client_ip, current_time, window_seconds) ==
    IF client_ip \notin DOMAIN st
    THEN [recent |-> <<>>, store |-> st]
    ELSE LET recent == SelectSeq(st[client_ip],
                           LAMBDA ts : current_time - ts < window_seconds * TicksPerSecond)
         IN  [recent |-> IF recent = <<>> THEN recent
                         ELSE SubSeq(recent, 1, Len(recent) - 1),
              store |-> [st EXCEPT ![client_ip] = recent]]

\* get_requests: the recent timestamps of client_ip, written back to the store
GetRequests(st, client_ip, current_time, window_seconds) ==
    IF client_ip \notin DOMAIN st
    THEN [recent |-> <<>>, store |-> st]
    ELSE LET recent == RecentOf(st[client_ip], current_time, window_seconds)
         IN  [recent |-> recent, store |-> [st EXCEPT ![client_ip] = recent]]

\* the timestamp is appended to the list of every client
AddRequestShared(st, client_ip, timestamp) ==
    LET base == IF client_ip \in DOMAIN st THEN st[client_ip] ELSE <<>>
    IN  [ip \in DOMAIN st \cup {client_ip} |->
            IF ip = client_ip THEN Append(base, timestamp)
            ELSE Append(st[ip], timestamp)]

\* add_request: create the key if absent, append the timestamp
AddRequest(st, client_ip, timestamp) ==
    LET base == IF client_ip \in DOMAIN st THEN st[client_ip] ELSE <<>>
    IN  [ip \in DOMAIN st \cup {client_ip} |->
            IF ip = client_ip THEN Append(base, timestamp) ELSE st[ip]]

\* a cleanup that empties the store
CleanupEverything(st, current_time, window_seconds) == <<>>

\* cleanup_old_entries: filter every list, delete the keys left empty
CleanupOldEntries(st, current_time, window_seconds) ==
    LET kept == {ip \in DOMAIN st :
                    RecentOf(st[ip], current_time, window_seconds) # <<>>}
    IN  [ip \in kept |-> RecentOf(st[ip], current_time, window_seconds)]

\* int(window_seconds - (current_time - oldest_request)), in seconds
RetryAfter(recent, current_time, window_seconds) ==
    LET oldest_request == IF recent # <<>> THEN MinOf(Range(recent)) ELSE current_time
        left == WindowTicks(window_seconds) - (current_time - oldest_request)
    IN  IF left >= 0 THEN left \div TicksPerSecond
        ELSE 0 - ((0 - left) \div TicksPerSecond)

\* a limit test that admits one call too many
LimitExceededLate(recent, max_requests) == Len(recent) > max_requests

\* the limit test of rate_limit_check
LimitExceeded(recent, max_requests) == Len(recent) >= max_requests

\* rate_limit_check(client_ip, max_requests, window_seconds).
\* t1 is the clock read of rate_limit_check, t2 the one of get_requests, t3 the
\* one of cleanup_old_entries; cleanup is the outcome of random.randint(1,100)==1.
RateLimitCheck(st, client_ip, max_requests, window_seconds, t1, t2, t3, cleanup) ==
    LET got == GetRequests(st, client_ip, t2, window_seconds)
    IN  IF LimitExceeded(got.recent, max_requests)
        THEN [ok |-> FALSE, status |-> 429, store |-> got.store,
              detail_retry_after |-> RetryAfter(got.recent, t1, window_seconds),
              header_retry_after |->
                  MaxNat(1, RetryAfter(got.recent, t1, window_seconds))]
        ELSE LET added == AddRequest(got.store, client_ip, t1)
             IN  [ok |-> TRUE, status |-> 200,
                  store |-> IF cleanup
                            THEN CleanupOldEntries(added, t3, window_seconds)
                            ELSE added,
                  detail_retry_after |-> 0, header_retry_after |-> 0]

\* the values a later read of the clock may return
ClockReads(t) == {u \in t..(t + 1) : u <= MaxTime}

NoCall == [ip |-> None, t1 |-> 0, t2 |-> 0, ok |-> FALSE, status |-> 0,
           detail_retry_after |-> 0, header_retry_after |-> 0, prior |-> 0]

\* history: the admitted timestamps of a list that are less than
\* window_seconds old at time t
YoungAt(lst, t, window_seconds) ==
    SelectSeq(lst, LAMBDA ts : t - ts < WindowTicks(window_seconds))

InitRate ==
    /\ store = <<>>
    /\ now = 0
    /\ rl_cfg \in [max_requests : 1..MaxRateRequests,
                   window_seconds : 1..MaxWindowSeconds]
    /\ admitted = [ip \in IPs |-> <<>>]
    /\ rl_last = NoCall
    /\ was_rejected = {}

\* one call of rate_limit_check from client ip
RateCall(ip) ==
    \E t2 \in ClockReads(now) : \E cleanup \in BOOLEAN :
        LET res == RateLimitCheck(store, ip, rl_cfg.max_requests,
                                  rl_cfg.window_seconds, now, t2, t2, cleanup)
            young == [i \in IPs |-> YoungAt(admitted[i], t2, rl_cfg.window_seconds)]
        IN  /\ store' = res.store
            /\ now' = t2
            /\ admitted' = IF res.ok
                           THEN [young EXCEPT ![ip] = Append(@, now)]
                           ELSE young
            /\ rl_last' = [ip |-> ip, t1 |-> now, t2 |-> t2, ok |-> res.ok,
                           status |-> res.status,
                           detail_retry_after |-> res.detail_retry_after,
                           header_retry_after |-> res.header_retry_after,
                           prior |-> Len(young[ip])]
            /\ was_rejected' = IF res.ok THEN was_rejected
                               ELSE was_rejected \cup {ip}
            /\ UNCHANGED rl_cfg

\* time passes
Tick ==
    /\ now < MaxTime
    /\ now' = now + 1
    /\ admitted' = [i \in IPs |->
                       YoungAt(admitted[i], now + 1, rl_cfg.window_seconds)]
    /\ UNCHANGED <<store, rl_cfg, rl_last, was_rejected>>

(***************************************************************************)
(* retry_with_backoff.                                                     *)
(***************************************************************************)
DefaultMaxRetries == 3
DefaultInitialDelay == 1
DefaultMaxDelay == 16
DefaultBackoffFactor == 2

\* what one invocation of the wrapped operation may do
TransportErrors == {"TimeoutException", "NetworkError", "ConnectError"}
StatusCodes == {404, 499, 500, 503}
Outcomes ==
    [kind : {"ok"}, code : {0}]
    \cup [kind : TransportErrors, code : {0}]
    \cup [kind : {"HTTPStatusError"}, code : StatusCodes]
    \cup [kind : {"ValueError"}, code : {0}]

\* except (httpx.TimeoutException, httpx.NetworkError, httpx.ConnectError)
IsTransportError(o) == o.kind \in TransportErrors

\* a status test that lets 4xx through to the retry branch
BelowServerErrorLow(code) == code < 400

\* e.response.status_code < 500
BelowServerError(code) == code < 500

\* the test of the loop's last iteration, one iteration early
LastAttemptEarly(attempt, max_retries) == attempt = max_retries - 1

\* if attempt == max_retries
LastAttempt(attempt, max_retries) == attempt = max_retries

\* a wait without the cap
WaitTimeUncapped(delay, max_delay) == delay

\* wait_time = min(delay, max_delay)
WaitTime(delay, max_delay) == MinNat(delay, max_delay)

\* delay *= backoff_factor
NextDelay(delay, backoff_factor) == delay * backoff_factor

\* the common tail of both except clauses: remember the exception, re-raise
\* it on the last attempt, otherwise sleep wait_time
RetryOrRaise(r, o) ==
    IF LastAttempt(r.attempt, r.max_retries)
    THEN [r EXCEPT !.pc = "raised", !.exc = o, !.last_exception = o]
    ELSE [r EXCEPT !.pc = "sleep", !.last_exception = o,
                   !.waits = Append(@, WaitTime(r.delay, r.max_delay))]

\* a loop in which the wait after a 5xx response does not follow the delay
\* that earlier failures have grown: it is always that of initial_delay
RetryOnOutcomePerKind(r, o) ==
    LET called == [r EXCEPT !.calls = @ + 1, !.outs = Append(@, o)]
    IN  IF o.kind = "ok"
        THEN [called EXCEPT !.pc = "returned", !.result = r.calls + 1]
        ELSE IF o.kind \in {"TimeoutException", "NetworkError", "ConnectError"}
        THEN RetryOrRaise(called, o)
        ELSE IF o.kind = "HTTPStatusError" /\ o.code >= 500
        THEN IF called.attempt = called.max_retries
             THEN [called EXCEPT !.pc = "raised", !.exc = o,
                                 !.last_exception = o]
             ELSE [called EXCEPT !.pc = "sleep", !.last_exception = o,
                       !.waits = Append(@, MinNat(r.initial_delay, r.max_delay))]
        ELSE [called EXCEPT !.pc = "raised", !.exc = o]

\* the body of one loop iteration once func() has produced outcome o:
\* return, raise, or sleep before the next iteration
RetryOnOutcome(r, o) ==
    LET called == [r EXCEPT !.calls = @ + 1, !.outs = Append(@, o)]
    IN  IF o.kind = "ok"
        THEN [called EXCEPT !.pc = "returned", !.result = r.calls + 1]
        ELSE IF IsTransportError(o)
        THEN RetryOrRaise(called, o)
        ELSE IF o.kind = "HTTPStatusError"
        THEN IF BelowServerError(o.code)
             THEN [called EXCEPT !.pc = "raised", !.exc = o]
             ELSE RetryOrRaise(called, o)
        ELSE [called EXCEPT !.pc = "raised", !.exc = o]

\* the loop statement left without advancing the attempt counter
RetryAfterSleepStuck(r) ==
    [r EXCEPT !.pc = "call", !.delay = NextDelay(@, r.backoff_factor)]

\* asyncio.sleep returns: the delay grows and the loop goes on
RetryAfterSleep(r) ==
    [r EXCEPT !.pc = "call", !.attempt = @ + 1,
              !.delay = NextDelay(@, r.backoff_factor)]

\* the state of retry_with_backoff on entry
RetryStart(max_retries, initial_delay, max_delay, backoff_factor) ==
    [max_retries |-> max_retries, max_delay |-> max_delay,
     backoff_factor |-> backoff_factor, initial_delay |-> initial_delay,
     delay |-> initial_delay, last_exception |-> None,
     attempt |-> 0, calls |-> 0, outs |-> <<>>, waits |-> <<>>,
     pc |-> "call", result |-> 0, exc |-> None]

InitialDelays == {DefaultInitialDelay, 2}
MaxDelays == {3, DefaultMaxDelay}
BackoffFactors == {DefaultBackoffFactor, 3}

InitRetry ==
    \E m \in 0..MaxRetriesBound : \E d \in InitialDelays :
    \E c \in MaxDelays : \E f \in BackoffFactors :
        rt = RetryStart(m, d, c, f)

\* one iteration of: for attempt in range(max_retries + 1): await func() ...
\* and, once the range is used up, the raise last_exception after the loop
RetryInvoke ==
    /\ rt.pc = "call"
    /\ IF rt.attempt <= rt.max_retries
       THEN \E o \in Outcomes : rt' = RetryOnOutcome(rt, o)
       ELSE rt' = [rt EXCEPT !.pc = "raised", !.exc = rt.last_exception]

\* the sleep before the next attempt is over
RetryWake ==
    /\ rt.pc = "sleep"
    /\ rt' = RetryAfterSleep(rt)

(***************************************************************************)
(* The alert webhook: receive_chainsync_alert and the alert_to_meeting     *)
(* workflow it runs.  A request's handler is a coroutine; an action is what *)
(* it does when the call it awaits completes, up to the next call it        *)
(* awaits.  pc names the call in progress.                                  *)
(***************************************************************************)
DefaultWindowSeconds == 60

Requests == 1..NumRequests
AlertIds == {"a1", "a2"}
ApiKeys == {None, "", "k1", "k2"}
Signatures == {"missing", "invalid", "valid"}

\* the status update is requested before the meeting is created
StepAfterStatusFirst(step) ==
    CASE step = "rca" -> "compliance"
      [] step = "compliance" -> "meeting_context"
      [] step = "meeting_context" -> "learn"
      [] step = "learn" -> "explain"
      [] step = "explain" -> "update_status"
      [] step = "update_status" -> "create_meeting"
      [] step = "create_meeting" -> "add_comment"
      [] step = "add_comment" -> "persist"
      [] step = "persist" -> "done"

\* the records are written before the comment is added
StepAfterPersistEarly(step) ==
    CASE step = "rca" -> "compliance"
      [] step = "compliance" -> "meeting_context"
      [] step = "meeting_context" -> "learn"
      [] step = "learn" -> "explain"
      [] step = "explain" -> "create_meeting"
      [] step = "create_meeting" -> "update_status"
      [] step = "update_status" -> "persist"
      [] step = "persist" -> "add_comment"
      [] step = "add_comment" -> "done"

\* the calls the handler awaits, in the order of the code
StepAfter(step) ==
    CASE step = "rca" -> "compliance"
      [] step = "compliance" -> "meeting_context"
      [] step = "meeting_context" -> "learn"
      [] step = "learn" -> "explain"
      [] step = "explain" -> "create_meeting"
      [] step = "create_meeting" -> "update_status"
      [] step = "update_status" -> "add_comment"
      [] step = "add_comment" -> "persist"
      [] step = "persist" -> "done"

\* a header that does not match is let through
VerifyApiKeyLenient(config_key, api_key) ==
    IF config_key = None \/ config_key = "" THEN 200
    ELSE IF api_key = None \/ api_key = "" THEN 401
    ELSE 200

\* verify_api_key: 200 stands for "return True"
VerifyApiKey(config_key, api_key) ==
    IF config_key = None \/ config_key = "" THEN 200
    ELSE IF api_key = None \/ api_key = "" THEN 401
    ELSE IF api_key # config_key THEN 403
    ELSE 200

\* no retry_with_backoff run is in progress
NoRun == [pc |-> "none"]

\* no exception
NoExc == [kind |-> "none", code |-> 0]

\* slotify_meeting.get('meeting_id') of a response without that key
NoId == <<>>

IdleRequest ==
    [pc |-> "idle", ip |-> None, alert_id |-> None, api_key |-> None,
     sig |-> None, status |-> 0, detail |-> None, failed_step |-> None, trace |-> <<>>,
     call |-> NoRun, outbound |-> {}, transient_tries |-> 0,
     meeting_id |-> NoId, wf_meeting_id |-> None]

\* the HTTPException is built but not raised: the handler runs on
RejectedNotRaised(q, status) == [q EXCEPT !.pc = "rca", !.status = status]

\* raise HTTPException(status_code=...) from a security check: the handler ends
Rejected(q, status) == [q EXCEPT !.pc = "rejected", !.status = status]

\* the security checks passed: the handler runs on to the workflow, which
\* fills in meeting_data and awaits the RCA agent
Accepted(q, r) ==
    [q EXCEPT !.pc = "rca", !.wf_meeting_id = <<"slotify_meeting", r>>]

\* str(e) of what a call raised
ExcMessage(o, where) ==
    IF o.kind = "HTTPStatusError" THEN <<"status", o.code, where>>
    ELSE IF o.kind = "IntegrityError" THEN <<"integrity", where>>
    ELSE <<o.kind>>

\* the except clause of the handler: log the failed request, answer 500
Failed(q, step, o, where) ==
    [q EXCEPT !.pc = "failed", !.status = 500, !.failed_step = step,
              !.call = NoRun,
              !.detail = <<"Error processing alert: ", ExcMessage(o, where)>>]

\* an outbound call raised: when what it raised is a transient network
\* failure, remember how many requests the call had made
Surfaced(q, c) ==
    [q EXCEPT !.transient_tries = IF IsTransportError(c.exc) THEN c.calls ELSE 0]

\* a call completed: remember it, await the next one
Advance(q, step) ==
    [q EXCEPT !.pc = StepAfter(step), !.trace = Append(@, step), !.call = NoRun]

LogRow(r, status) == [request |-> r, response_status |-> status]

\* the API key is looked at before the rate limit
SecurityChecksKeyFirst(rate_status, key_status) ==
    IF key_status # 200 THEN key_status ELSE rate_status

\* rate_limit_check(client_ip) then verify_api_key(api_key): the status of
\* the first check that raises, 200 when neither does
SecurityChecks(rate_status, key_status) ==
    IF rate_status # 200 THEN rate_status ELSE key_status

\* POST /webhooks/chainsync/alert arrives: rate_limit_check and
\* verify_api_key run with no await before or between them, so no other
\* handler runs until both are through
Receive(r, ip, alert_id, api_key, sig) ==
    /\ req[r].pc = "idle"
    /\ \A p \in Requests : p < r => req[p].pc # "idle"
    /\ \E cleanup \in BOOLEAN :
        LET q == [req[r] EXCEPT !.ip = ip, !.alert_id = alert_id,
                                !.api_key = api_key, !.sig = sig]
            rl == RateLimitCheck(store, ip, HandlerMaxRequests,
                                 DefaultWindowSeconds, now, now, now, cleanup)
            key == VerifyApiKey(cfg.webhook_api_key, api_key)
            status == SecurityChecks(rl.status, key)
        IN  /\ store' = rl.store
            /\ req' = [req EXCEPT ![r] =
                          IF status # 200 THEN Rejected(q, status)
                          ELSE Accepted(q, r)]
    /\ UNCHANGED <<now, rl_cfg, admitted, rl_last, was_rejected, rt, cfg,
                   alerts_db, meetings_db, webhook_logs, slotify, chainsync,
                   learning_history>>

AgentOutcomes == {[kind |-> "ok", code |-> 0], [kind |-> "Exception", code |-> 0]}

\* an awaited agent call completes: analyze_failure, check_compliance,
\* process_slotify_meeting, explain_meeting
AgentStep(r, step) ==
    /\ req[r].pc = step
    /\ \E o \in AgentOutcomes :
        IF o.kind = "ok"
        THEN /\ req' = [req EXCEPT ![r] = Advance(@, step)]
             /\ UNCHANGED webhook_logs
        ELSE /\ req' = [req EXCEPT ![r] = Failed(@, step, o, None)]
             /\ webhook_logs' = webhook_logs \cup {LogRow(r, 500)}
    /\ UNCHANGED <<store, now, rl_cfg, admitted, rl_last, was_rejected, rt, cfg,
                   alerts_db, meetings_db, slotify, chainsync, learning_history>>

\* await learning_agent.learn_from_interaction(...) completes
LearnStep(r) ==
    /\ req[r].pc = "learn"
    /\ \E o \in AgentOutcomes :
        IF o.kind = "ok"
        THEN /\ req' = [req EXCEPT ![r] = Advance(@, "learn")]
             /\ learning_history' = learning_history \cup {r}
             /\ UNCHANGED webhook_logs
        ELSE /\ req' = [req EXCEPT ![r] = Failed(@, "learn", o, None)]
             /\ webhook_logs' = webhook_logs \cup {LogRow(r, 500)}
             /\ UNCHANGED learning_history
    /\ UNCHANGED <<store, now, rl_cfg, admitted, rl_last, was_rejected, rt, cfg,
                   alerts_db, meetings_db, slotify, chainsync>>

\* what one outbound request of the handler may do
HttpOutcomes ==
    {[kind |-> "ok", code |-> 0], [kind |-> "TimeoutException", code |-> 0],
     [kind |-> "HTTPStatusError", code |-> 404]}

\* one outbound request of a client method that wraps it in
\* retry_with_backoff(_make_request, max_retries=3); c is the run so far
RetriedRequest(c, o) ==
    LET run == IF c.pc = "none"
               THEN RetryStart(DefaultMaxRetries, DefaultInitialDelay,
                               DefaultMaxDelay, DefaultBackoffFactor)
               ELSE c
        after == RetryOnOutcome(run, o)
    IN  IF after.pc = "sleep" THEN RetryAfterSleep(after) ELSE after

\* one outbound request of a client method that makes it directly
DirectRequest(c, o) ==
    LET run == RetryStart(0, DefaultInitialDelay, DefaultMaxDelay,
                          DefaultBackoffFactor)
    IN  [run EXCEPT !.calls = 1, !.outs = <<o>>,
                    !.pc = IF o.kind = "ok" THEN "returned" ELSE "raised",
                    !.exc = IF o.kind = "ok" THEN None ELSE o]

\* what slotify_meeting.get('meeting_id') may be for the body of a 2xx
\* response to POST /meetings: the id of the meeting, or None
ResponseIds(r) == {<<"slotify", r>>, NoId}

\* slotify_client.create_meeting: the mock when no key is set, else POST /meetings
CreateMeeting(r) ==
    /\ req[r].pc = "create_meeting"
    /\ IF cfg.slotify_api_key = None
       THEN /\ req' = [req EXCEPT ![r] =
                  [Advance(@, "create_meeting") EXCEPT
                      !.meeting_id = <<"slotify-mock", r>>]]
            /\ UNCHANGED <<slotify, webhook_logs>>
       ELSE \E o \in HttpOutcomes :
            LET c == RetriedRequest(req[r].call, o)
                q == [req[r] EXCEPT !.outbound = @ \cup {"create_meeting"}]
            IN  CASE c.pc = "returned" ->
                       /\ \E id \in ResponseIds(r) :
                              req' = [req EXCEPT ![r] =
                                  [Advance(q, "create_meeting") EXCEPT
                                      !.meeting_id = id]]
                       /\ slotify' = slotify \cup
                              {[meeting_id |-> <<"slotify", r>>,
                                alert_reference |-> req[r].alert_id]}
                       /\ UNCHANGED webhook_logs
                  [] c.pc = "raised" ->
                       /\ req' = [req EXCEPT ![r] =
                              Failed(Surfaced(q, c), "create_meeting", c.exc,
                                     <<"meetings">>)]
                       /\ webhook_logs' = webhook_logs \cup {LogRow(r, 500)}
                       /\ UNCHANGED slotify
                  [] OTHER ->
                       /\ req' = [req EXCEPT ![r] = [q EXCEPT !.call = c]]
                       /\ UNCHANGED <<slotify, webhook_logs>>
    /\ UNCHANGED <<store, now, rl_cfg, admitted, rl_last, was_rejected, rt, cfg,
                   alerts_db, meetings_db, chainsync, learning_history>>

\* the except clause cancels the meeting the request created
SlotifyAfterFailureCancelled(meetings, q) ==
    {m \in meetings : m.meeting_id # q.meeting_id}

\* what the except clause of the handler does to the meeting the request
\* created: nothing, cancel_meeting is not called
SlotifyAfterFailure(meetings, q) == meetings

\* chainsync_client.update_alert_status: PATCH /alerts/{alert_id}
UpdateAlertStatus(r) ==
    /\ req[r].pc = "update_status"
    /\ IF cfg.chainsync_api_key = None
       THEN /\ req' = [req EXCEPT ![r] = Advance(@, "update_status")]
            /\ UNCHANGED <<chainsync, webhook_logs>>
       ELSE \E o \in HttpOutcomes :
            LET c == RetriedRequest(req[r].call, o)
                q == [req[r] EXCEPT !.outbound = @ \cup {"update_status"}]
            IN  CASE c.pc = "returned" ->
                       /\ req' = [req EXCEPT ![r] = Advance(q, "update_status")]
                       /\ chainsync' = chainsync \cup
                              {[alert_id |-> req[r].alert_id,
                                what |-> "meeting_scheduled",
                                meeting_id |-> req[r].meeting_id]}
                       /\ UNCHANGED webhook_logs
                  [] c.pc = "raised" ->
                       /\ req' = [req EXCEPT ![r] =
                              Failed(Surfaced(q, c), "update_status", c.exc,
                                     <<"alerts", req[r].alert_id>>)]
                       /\ webhook_logs' = webhook_logs \cup {LogRow(r, 500)}
                       /\ UNCHANGED chainsync
                  [] OTHER ->
                       /\ req' = [req EXCEPT ![r] = [q EXCEPT !.call = c]]
                       /\ UNCHANGED <<chainsync, webhook_logs>>
    /\ slotify' = IF req'[r].pc = "failed"
                  THEN SlotifyAfterFailure(slotify, req[r]) ELSE slotify
    /\ UNCHANGED <<store, now, rl_cfg, admitted, rl_last, was_rejected, rt, cfg,
                   alerts_db, meetings_db, learning_history>>

\* chainsync_client.add_alert_comment: POST /alerts/{alert_id}/comments
AddAlertComment(r) ==
    /\ req[r].pc = "add_comment"
    /\ IF cfg.chainsync_api_key = None
       THEN /\ req' = [req EXCEPT ![r] = Advance(@, "add_comment")]
            /\ UNCHANGED <<chainsync, webhook_logs>>
       ELSE \E o \in HttpOutcomes :
            LET c == DirectRequest(req[r].call, o)
                q == [req[r] EXCEPT !.outbound = @ \cup {"add_comment"}]
            IN  IF c.pc = "returned"
                THEN /\ req' = [req EXCEPT ![r] = Advance(q, "add_comment")]
                     /\ chainsync' = chainsync \cup
                            {[alert_id |-> req[r].alert_id, what |-> "comment",
                              meeting_id |-> req[r].meeting_id]}
                     /\ UNCHANGED webhook_logs
                ELSE /\ req' = [req EXCEPT ![r] =
                            Failed(Surfaced(q, c), "add_comment", c.exc,
                                   <<"alerts", req[r].alert_id, "comments">>)]
                     /\ webhook_logs' = webhook_logs \cup {LogRow(r, 500)}
                     /\ UNCHANGED chainsync
    /\ slotify' = IF req'[r].pc = "failed"
                  THEN SlotifyAfterFailure(slotify, req[r]) ELSE slotify
    /\ UNCHANGED <<store, now, rl_cfg, admitted, rl_last, was_rejected, rt, cfg,
                   alerts_db, meetings_db, learning_history>>

AlertRow(r) ==
    [alert_id |-> req[r].alert_id, meeting_created |-> TRUE,
     meeting_id |-> req[r].meeting_id, request |-> r]

MeetingRow(r) ==
    [meeting_id |-> req[r].meeting_id, alert_id |-> req[r].alert_id,
     request |-> r]

\* the unique index on alerts.alert_id refuses a second row
AlertInsertRefused(rows, alert_id) == \E a \in rows : a.alert_id = alert_id

\* meetings.meeting_id is unique and not nullable
MeetingInsertRefused(rows, meeting_id) ==
    meeting_id = NoId \/ \E m \in rows : m.meeting_id = meeting_id

DbError == [kind |-> "OperationalError", code |-> 0]
UniqueError == [kind |-> "IntegrityError", code |-> 0]

\* AlertRepository.create, MeetingRepository.create, the request's log row and
\* the response; db_error is a commit the database fails for its own reasons
Persist(r) ==
    /\ req[r].pc = "persist"
    /\ \E db_error \in {"none", "alert", "meeting"} :
        LET alert_exc ==
                IF AlertInsertRefused(alerts_db, req[r].alert_id) THEN UniqueError
                ELSE IF db_error = "alert" THEN DbError ELSE NoExc
            meeting_exc ==
                IF MeetingInsertRefused(meetings_db, req[r].meeting_id)
                THEN UniqueError
                ELSE IF db_error = "meeting" THEN DbError ELSE NoExc
        IN  IF alert_exc # NoExc
            THEN /\ req' = [req EXCEPT ![r] =
                        Failed(@, "persist", alert_exc,
                               <<"alerts", req[r].alert_id>>)]
                 /\ webhook_logs' = webhook_logs \cup {LogRow(r, 500)}
                 /\ UNCHANGED <<alerts_db, meetings_db>>
            ELSE IF meeting_exc # NoExc
            THEN /\ alerts_db' = alerts_db \cup {AlertRow(r)}
                 /\ req' = [req EXCEPT ![r] =
                        Failed(@, "persist", meeting_exc,
                               <<"meetings", req[r].meeting_id>>)]
                 /\ webhook_logs' = webhook_logs \cup {LogRow(r, 500)}
                 /\ UNCHANGED meetings_db
            ELSE /\ alerts_db' = alerts_db \cup {AlertRow(r)}
                 /\ meetings_db' = meetings_db \cup {MeetingRow(r)}
                 /\ webhook_logs' = webhook_logs \cup {LogRow(r, 200)}
                 /\ req' = [req EXCEPT ![r] =
                        [Advance(@, "persist") EXCEPT !.status = 200]]
    /\ slotify' = IF req'[r].pc = "failed"
                  THEN SlotifyAfterFailure(slotify, req[r]) ELSE slotify
    /\ UNCHANGED <<store, now, rl_cfg, admitted, rl_last, was_rejected, rt, cfg,
                   chainsync, learning_history>>

\* the steps of the handler of request r
HandlerStep(r, ips, alert_ids, sigs) ==
    \/ \E ip \in ips : \E a \in alert_ids : \E k \in ApiKeys : \E sg \in sigs :
           Receive(r, ip, a, k, sg)
    \/ \E step \in {"rca", "compliance", "meeting_context", "explain"} :
           AgentStep(r, step)
    \/ LearnStep(r)
    \/ CreateMeeting(r)
    \/ UpdateAlertStatus(r)
    \/ AddAlertComment(r)
    \/ Persist(r)

KeyChoices == {None, "k1"}

InitWeb ==
    /\ cfg \in [webhook_api_key : KeyChoices, webhook_secret_key : KeyChoices,
                slotify_api_key : KeyChoices, chainsync_api_key : KeyChoices]
    /\ req = [r \in Requests |-> IdleRequest]
    /\ alerts_db = {}
    /\ meetings_db = {}
    /\ webhook_logs = {}
    /\ slotify = {}
    /\ chainsync = {}
    /\ learning_history = {}

IdleWeb ==
    /\ cfg = [webhook_api_key |-> None, webhook_secret_key |-> None,
              slotify_api_key |-> None, chainsync_api_key |-> None]
    /\ req = [r \in Requests |-> IdleRequest]
    /\ alerts_db = {}
    /\ meetings_db = {}
    /\ webhook_logs = {}
    /\ slotify = {}
    /\ chainsync = {}
    /\ learning_history = {}

IdleRate ==
    /\ store = <<>> /\ now = 0
    /\ rl_cfg = [max_requests |-> HandlerMaxRequests,
                 window_seconds |-> DefaultWindowSeconds]
    /\ admitted = [ip \in IPs |-> <<>>]
    /\ rl_last = NoCall
    /\ was_rejected = {}

(***************************************************************************)
(* The security functions of chainsync/security.py: verify_api_key,        *)
(* verify_webhook_signature and generate_webhook_signature.  Strings are   *)
(* tuples: <<>> is the empty string and a header that is absent.           *)
(***************************************************************************)
SignatureWindow == 300

Abs(n) == IF n < 0 THEN 0 - n ELSE n

\* int(time.time()) at clock tick t
IntTime(t) == t \div TicksPerSecond

NoHeader == <<>>

\* str(n), and the string "+n": int() reads both as n
Decimal(n) == <<"dec", n>>
PlusDecimal(n) == <<"plus", n>>
NotANumber == <<"abc">>

\* int(timestamp) succeeds
ParsesAsInt(text) == Len(text) = 2
IntOf(text) == text[2]

\* bytes: the UTF-8 encoding of a text, or bytes that are not UTF-8
Encode(text) == <<"utf8", text>>
NotUtf8 == <<"bytes">>
Decodable(bytes) == bytes[1] = "utf8"
Decode(bytes) == bytes[2]

\* f"{timestamp}.{payload}": an integer numeral holds no dot, so the message
\* determines both parts
Message(timestamp, payload) == <<timestamp, payload>>

\* hmac.new(key, message, sha256).hexdigest(), taken as collision-free
Hmac(key, message) == <<"hmac", key, message>>

\* the replay window is one second shorter
TimestampTooOldEarly(time_diff) == time_diff >= SignatureWindow

TimestampTooOld(time_diff) == time_diff > SignatureWindow

\* the signature is not compared
SignatureMismatchIgnored(signature, expected_signature) == FALSE

\* not hmac.compare_digest(signature, expected_signature)
SignatureMismatch(signature, expected_signature) == signature # expected_signature

Outcome(status, detail) == [status |-> status, detail |-> detail]

\* verify_webhook_signature at clock tick t; status 200 stands for "return
\* True" and status 0 for an exception that is not an HTTPException
VerifyWebhookSignature(secret, request_body, signature, timestamp, t) ==
    IF secret = None \/ secret = "" THEN Outcome(200, "disabled")
    ELSE IF signature = NoHeader \/ timestamp = NoHeader
    THEN Outcome(401, "Missing webhook signature or timestamp headers")
    ELSE IF ~ParsesAsInt(timestamp) THEN Outcome(400, "Invalid timestamp format")
    ELSE IF TimestampTooOld(Abs(IntTime(t) - IntOf(timestamp)))
    THEN Outcome(401, "Request timestamp too old. Possible replay attack.")
    ELSE IF ~Decodable(request_body) THEN Outcome(0, "UnicodeDecodeError")
    ELSE IF SignatureMismatch(signature,
                Hmac(secret, Message(timestamp, Decode(request_body))))
    THEN Outcome(403, "Invalid webhook signature")
    ELSE Outcome(200, "valid")

NoSignature == [signature |-> NoHeader, timestamp |-> NoHeader, payload |-> "",
                secret_key |-> None]

\* generate_webhook_signature at clock tick t; NoSignature stands for ValueError
GenerateWebhookSignature(payload, secret_key, config_secret, t) ==
    LET key == IF secret_key = None THEN config_secret ELSE secret_key
    IN  IF key = None \/ key = "" THEN NoSignature
        ELSE [signature |-> Hmac(key, Message(Decimal(IntTime(t)), payload)),
              timestamp |-> Decimal(IntTime(t)),
              payload |-> payload, secret_key |-> key]

Payloads == {"p1", "p2"}
Bodies == {Encode(p) : p \in Payloads} \cup {NotUtf8}
SecretChoices == {None, "s1", "s2"}
\* the payload the client signs is named "p1", the secret of the server "s1"
SignedPayloads == {"p1"}
ConfigSecrets == {None, "s1"}

\* the seconds and the clock ticks at which the functions are exercised
SigSeconds ==
    {n \in 0..(SignatureWindow + SigSlack) :
        n <= SigSlack \/ n >= SignatureWindow - SigSlack}
SigTicks ==
    {t \in 0..((SignatureWindow + SigSlack + 1) * TicksPerSecond - 1) :
        IntTime(t) \in SigSeconds}

\* the timestamp headers tried: none, one that is no number, any second, and
\* the generated second written with a sign
TimestampHeaders ==
    {NoHeader, NotANumber, <<"generated", "plus">>}
        \cup {Decimal(n) : n \in SigSeconds}

\* the signature headers tried: none, one that is no digest, the generated one
SignatureHeaders == {NoHeader, <<"garbage">>, <<"generated">>}

NoAuthCall == [fn |-> "none"]

IdleAuth == [generated |-> NoSignature, call |-> NoAuthCall]

InitAuth ==
    /\ cfg \in [webhook_api_key : KeyChoices, webhook_secret_key : ConfigSecrets,
                slotify_api_key : {None}, chainsync_api_key : {None}]
    /\ now \in SigTicks
    /\ auth = IdleAuth

\* verify_api_key(api_key)
KeyCheck(api_key) ==
    /\ auth.call = NoAuthCall
    /\ auth' = [auth EXCEPT !.call =
                   [fn |-> "verify_api_key", api_key |-> api_key,
                    status |-> VerifyApiKey(cfg.webhook_api_key, api_key)]]
    /\ UNCHANGED <<rateVars, retryVars, webVars, orchVars, extVars>>

\* a webhook client calls generate_webhook_signature(payload, secret_key)
SigGenerate(payload, secret_key) ==
    /\ auth.generated = NoSignature
    /\ auth' = [auth EXCEPT !.generated =
                   GenerateWebhookSignature(payload, secret_key,
                                            cfg.webhook_secret_key, now)]
    /\ UNCHANGED <<rateVars, retryVars, webVars, orchVars, extVars>>

\* verify_webhook_signature(request_body, signature, timestamp); the header
\* <<"generated">> is the signature the client generated
SigVerify(request_body, signature, timestamp) ==
    /\ auth.call = NoAuthCall
    /\ (signature = <<"generated">> \/ timestamp = <<"generated", "plus">>)
           => auth.generated # NoSignature
    /\ LET sg == IF signature = <<"generated">> THEN auth.generated.signature
                 ELSE signature
           ts == IF timestamp = <<"generated", "plus">>
                 THEN PlusDecimal(IntOf(auth.generated.timestamp))
                 ELSE timestamp
       IN  auth' = [auth EXCEPT !.call =
                       [fn |-> "verify_webhook_signature",
                        request_body |-> request_body, signature |-> sg,
                        timestamp |-> ts, at |-> now,
                        result |-> VerifyWebhookSignature(cfg.webhook_secret_key,
                                      request_body, sg, ts, now)]]
    /\ UNCHANGED <<rateVars, retryVars, webVars, orchVars, extVars>>

\* time passes
SigTick ==
    /\ auth.call = NoAuthCall
    /\ \E t \in SigTicks : t > now /\ now' = t
    /\ UNCHANGED <<store, rl_cfg, admitted, rl_last, was_rejected, retryVars,
                   webVars, authVars, orchVars, extVars>>

(***************************************************************************)
(* AgentOrchestrator.execute_parallel_agents: the loop that builds one      *)
(* coroutine per task whose agent exists, asyncio.gather over them, and the *)
(* list built from what gather returns.  The coroutines complete in any     *)
(* order.  A result carries the index of the input task it answers.         *)
(***************************************************************************)
\* the keys of self.agents
AgentNames == {"continuous_learning", "root_cause_analysis",
               "natural_language_query", "compliance_autopilot",
               "memory_enabled", "multi_step_reasoning", "meeting_context"}

\* self.agents.get(agent_name): is there an agent of that name
GetAgent(agent_name) == agent_name \in AgentNames

\* the agent_name of the tasks tried: two agents, a name that is no agent's,
\* and a task without the key
TaskAgentNames == {"root_cause_analysis", "compliance_autopilot",
                   "no_such_agent", None}

\* what the agent's method does when awaited
AgentRunOutcomes == {"ok", "Exception"}

Pending == [kind |-> "pending"]

\* _execute_agent_request: the agent's result, or the dict built by
\* except Exception
ExecuteAgentRequest(agent_name, task, o) ==
    IF o = "ok"
    THEN [kind |-> "result", agent |-> agent_name, task |-> task]
    ELSE [kind |-> "error", agent |-> agent_name, task |-> task]

\* the tasks list after the for loop: the indices, in input order, of the
\* input tasks for which `if agent:` let a coroutine be appended
RECURSIVE ScheduledTasks(_, _)
ScheduledTasks(agent_tasks, i) ==
    IF i > Len(agent_tasks) THEN <<>>
    ELSE IF GetAgent(agent_tasks[i])
    THEN <<i>> \o ScheduledTasks(agent_tasks, i + 1)
    ELSE ScheduledTasks(agent_tasks, i + 1)

\* result if not isinstance(result, Exception) else {'error': str(result)}
GatheredResult(result) ==
    IF result.kind = "exception"
    THEN [kind |-> "error", agent |-> None, task |-> result.task]
    ELSE result

InitParallel ==
    \E n \in 1..MaxTasks : \E agent_tasks \in [1..n -> TaskAgentNames] :
        par = [pc |-> "start", agent_tasks |-> agent_tasks, tasks |-> <<>>,
               done |-> <<>>, results |-> <<>>]

\* execute_parallel_agents up to await asyncio.gather(...)
ParallelStart ==
    /\ par.pc = "start"
    /\ LET tasks == ScheduledTasks(par.agent_tasks, 1)
       IN  par' = [par EXCEPT !.pc = "gather", !.tasks = tasks,
                              !.done = [k \in DOMAIN tasks |-> Pending]]

\* the k-th coroutine runs to its end
AgentRequestDone(k, o) ==
    /\ par.pc = "gather"
    /\ k \in DOMAIN par.tasks
    /\ par.done[k] = Pending
    /\ par' = [par EXCEPT !.done[k] =
                  ExecuteAgentRequest(par.agent_tasks[par.tasks[k]],
                                      par.tasks[k], o)]

\* gather returns once every coroutine is done, and the list is built
ParallelGather ==
    /\ par.pc = "gather"
    /\ \A k \in DOMAIN par.done : par.done[k] # Pending
    /\ par' = [par EXCEPT !.pc = "returned",
                          !.results = [k \in DOMAIN par.done |->
                                          GatheredResult(par.done[k])]]

(***************************************************************************)
(* AgentOrchestrator.multi_agent_workflow with the workflows                *)
(* intelligent_incident_response and compliance_with_rca.  Runs are         *)
(* coroutines of one event loop: an action is what a run does when the      *)
(* agent call it awaits completes, up to the next call it awaits.  calls    *)
(* lists the agent methods a run has called, in order; a result maps each   *)
(* key of the returned dict to the agent method whose result it holds.      *)
(***************************************************************************)
Runs == 1..MaxRuns

\* the workflow_name of the runs tried: the two workflows and a name that is
\* in no entry of the workflows dict
WorkflowNames == {"intelligent_incident_response", "compliance_with_rca",
                  "no_such_workflow"}

\* what an awaited agent method does
StepOutcomes == {"ok", "Exception"}

NoResult == [error |-> "none"]

IdleRun == [workflow |-> None, pc |-> "idle", calls |-> <<>>, violations |-> 0,
            result |-> NoResult]

\* the agent methods _intelligent_incident_response awaits, in program order
IncidentSteps == <<"process_query", "analyze_failure", "check_compliance",
                   "learn_from_interaction">>

\* the dict _intelligent_incident_response returns
IncidentResult ==
    [workflow |-> "intelligent_incident_response",
     query_analysis |-> "process_query",
     root_cause_analysis |-> "analyze_failure",
     compliance_check |-> "check_compliance",
     timestamp |-> "now"]

\* a test that takes every compliance result for one with violations
HasViolationsAlways(violations) == TRUE

\* if compliance_result.get('violations'): the list is not empty
HasViolations(violations) == violations > 0

\* workflow_result of _compliance_with_rca before the test for violations
ComplianceResult ==
    [workflow |-> "compliance_with_rca", compliance_check |-> "check_compliance"]

\* workflow_result['root_cause_analysis'] = rca_result
WithRca(result) ==
    [k \in DOMAIN result \cup {"root_cause_analysis"} |->
        IF k = "root_cause_analysis" THEN "analyze_failure" ELSE result[k]]

\* workflow_result['remediation_plan'] = remediation_result
WithRemediation(result) ==
    [k \in DOMAIN result \cup {"remediation_plan"} |->
        IF k = "remediation_plan" THEN "solve_problem" ELSE result[k]]

\* a run calls the agent method step and awaits it
Await(run, step) == [run EXCEPT !.pc = step, !.calls = Append(@, step)]

\* the entry of a run takes the place of the history
ReturnedOverwriting(w, r, result) ==
    [w EXCEPT !.runs[r] = [w.runs[r] EXCEPT !.pc = "returned", !.result = result],
              !.history = <<[workflow |-> w.runs[r].workflow,
                             run |-> r, result |-> result]>>]

\* the workflow function returns result, multi_agent_workflow appends it to
\* orchestration_history and returns it
Returned(w, r, result) ==
    [w EXCEPT !.runs[r] = [w.runs[r] EXCEPT !.pc = "returned", !.result = result],
              !.history = Append(@, [workflow |-> w.runs[r].workflow,
                                     run |-> r, result |-> result])]

\* an agent method raised: nothing catches it
Raised(w, r) == [w EXCEPT !.runs[r].pc = "raised"]

\* list(workflows.keys())
Workflows == <<"intelligent_incident_response", "compliance_with_rca",
               "conversational_problem_solving", "alert_to_meeting">>

\* what multi_agent_workflow returns when workflows.get(workflow_name) is None
UnknownWorkflow(workflow_name) ==
    [error |-> <<"Unknown workflow: ", workflow_name>>,
     available_workflows |-> Workflows]

InitWorkflow ==
    wf = [runs |-> [r \in Runs |-> IdleRun], history |-> <<>>]

\* multi_agent_workflow(workflow_name, workflow_data) up to its first await
WorkflowStart(r, workflow_name) ==
    /\ wf.runs[r].pc = "idle"
    /\ LET run == [wf.runs[r] EXCEPT !.workflow = workflow_name]
       IN  wf' = CASE workflow_name = "intelligent_incident_response" ->
                       [wf EXCEPT !.runs[r] = Await(run, IncidentSteps[1])]
                   [] workflow_name = "compliance_with_rca" ->
                       [wf EXCEPT !.runs[r] = Await(run, "check_compliance")]
                   [] OTHER ->
                       [wf EXCEPT !.runs[r] =
                           [run EXCEPT !.pc = "returned",
                                       !.result = UnknownWorkflow(workflow_name)]]

\* _intelligent_incident_response: the awaited step completes
IncidentStep(r, o) ==
    LET run == wf.runs[r]
        n == Len(run.calls)
    IN  /\ run.workflow = "intelligent_incident_response"
        /\ run.pc \notin {"idle", "returned", "raised"}
        /\ wf' = IF o = "Exception" THEN Raised(wf, r)
                  ELSE IF n < Len(IncidentSteps)
                  THEN [wf EXCEPT !.runs[r] = Await(run, IncidentSteps[n + 1])]
                  ELSE Returned(wf, r, IncidentResult)

\* _compliance_with_rca: the awaited step completes; the compliance check
\* reports violations (a number of them)
ComplianceStep(r, o, violations) ==
    LET run == wf.runs[r]
    IN  /\ run.workflow = "compliance_with_rca"
        /\ run.pc \notin {"idle", "returned", "raised"}
        /\ wf' =
             IF o = "Exception" THEN Raised(wf, r)
             ELSE CASE run.pc = "check_compliance" ->
                       LET checked == [run EXCEPT !.violations = violations,
                                                  !.result = ComplianceResult]
                       IN  IF HasViolations(violations)
                           THEN [wf EXCEPT !.runs[r] =
                                    Await(checked, "analyze_failure")]
                           ELSE Returned([wf EXCEPT !.runs[r] = checked], r,
                                         ComplianceResult)
                  [] run.pc = "analyze_failure" ->
                       [wf EXCEPT !.runs[r] =
                           Await([run EXCEPT !.result = WithRca(@)],
                                 "solve_problem")]
                  [] run.pc = "solve_problem" ->
                       Returned(wf, r, WithRemediation(run.result))

(***************************************************************************)
(* The service clients SlotifyAPIClient and ChainSyncAPIClient: what each   *)
(* operation returns when its client has no API key, and whether it makes   *)
(* an outbound request.  A returned dict is a record of its keys.  client   *)
(* holds the last two operations called.                                    *)
(***************************************************************************)
SlotifyOps == {"create_meeting", "update_meeting", "cancel_meeting",
               "get_meeting"}
ChainSyncOps == {"get_alert", "update_alert_status", "add_alert_comment",
                 "get_facility_data"}

\* the API key a client is constructed with: unset, empty, set
ClientKeys == {None, "", "k1"}

\* the first argument of an operation (a title, a meeting id, an alert id,
\* a facility id); the other arguments are the same in every call
ClientArgs == {"x1", "x2"}

\* if not self.api_key
NoApiKey(api_key) == api_key = None \/ api_key = ""

\* self.api_key of the client an operation belongs to
ApiKeyOf(config, op) ==
    IF op \in SlotifyOps THEN config.slotify_api_key
    ELSE config.chainsync_api_key

\* _mock_create_meeting(title, scheduled_time, attendees) at time t:
\* meeting_id = f"slotify-mock-{datetime.now().timestamp()}"
MockCreateMeeting(title, scheduled_time, attendees, t) ==
    [meeting_id |-> <<"slotify-mock", t>>,
     meeting_url |-> <<"https://slotify.com/meetings/", <<"slotify-mock", t>>>>,
     title |-> title, scheduled_time |-> scheduled_time,
     attendees |-> attendees, status |-> "scheduled", mock |-> TRUE]

\* the dict each operation returns when its client has no API key
MockResult(op, arg, t) ==
    CASE op = "create_meeting" -> MockCreateMeeting(arg, "t0", <<>>, t)
      [] op = "update_meeting" ->
            [meeting_id |-> arg, updated |-> TRUE, mock |-> TRUE]
      [] op = "cancel_meeting" ->
            [meeting_id |-> arg, cancelled |-> TRUE, mock |-> TRUE]
      [] op = "get_meeting" -> [meeting_id |-> arg, mock |-> TRUE]
      [] op = "get_alert" -> [alert_id |-> arg, mock |-> TRUE]
      [] op = "update_alert_status" ->
            [alert_id |-> arg, status |-> "acknowledged", updated |-> TRUE,
             mock |-> TRUE]
      [] op = "add_alert_comment" ->
            [alert_id |-> arg, comment_added |-> TRUE, mock |-> TRUE]
      [] op = "get_facility_data" -> [facility_id |-> arg, mock |-> TRUE]

\* what the service answers to an outbound request: response.json() of a
\* 2xx, or an httpx.HTTPError that the operation raises
ServiceOutcomes == {"ok", "HTTPError"}

ServiceResult(op, arg, o) ==
    IF o = "ok" THEN [response |-> <<op, arg>>] ELSE [raised |-> "HTTPError"]

\* an operation of a client, called at time t
ClientOperation(config, op, arg, t, o) ==
    IF NoApiKey(ApiKeyOf(config, op))
    THEN [op |-> op, arg |-> arg, keyed |-> FALSE, outbound |-> FALSE,
          result |-> MockResult(op, arg, t)]
    ELSE [op |-> op, arg |-> arg, keyed |-> TRUE, outbound |-> TRUE,
          result |-> ServiceResult(op, arg, o)]

NoOperation == [op |-> None]

InitClient ==
    /\ cfg \in [webhook_api_key : {None}, webhook_secret_key : {None},
                slotify_api_key : ClientKeys, chainsync_api_key : ClientKeys]
    /\ now = 0
    /\ client = [prev |-> NoOperation, last |-> NoOperation]

\* one operation of one of the two clients is called and returns
ClientCall(op, arg, o) ==
    /\ client' = [prev |-> client.last,
                  last |-> ClientOperation(cfg, op, arg, now, o)]
    /\ UNCHANGED <<rateVars, retryVars, webVars, authVars, par, wf, mctx, extVars>>

\* time passes between two operations
ClientTick ==
    /\ now < MaxTime
    /\ now' = now + 1
    /\ UNCHANGED <<store, rl_cfg, admitted, rl_last, was_rejected, retryVars,
                   webVars, authVars, orchVars, extVars>>

(***************************************************************************)
(* MeetingContextAgent.  The class is imported by agent_orchestrator.py and *)
(* exercised by tests/test_meeting_context_agent.py, but its code is not    *)
(* part of the sources: the definitions below follow sections 4.3 to 4.5 of *)
(* the specification.  Scores are in hundredths (0.8 is 80), durations in   *)
(* minutes.  What the specification leaves to the implementation (the       *)
(* weight of an alert type, the attendees and the category of the alert     *)
(* types it does not list) is drawn from Implementations.                   *)
(***************************************************************************)
Severities == {"critical", "high", "medium", "low"}

AlertTypes == {"compliance_violation", "system_failure",
               "performance_degradation", "security_incident",
               "data_quality_issue", "integration_failure", "capacity_warning"}

Implementations ==
    {[nudge |-> [security |-> 30, compliance |-> 5, operations |-> -30],
      other_category |-> "operations",
      other_attendees |-> <<"Engineering", "Management">>,
      systems_threshold |-> 3],
     [nudge |-> [security |-> 5, compliance |-> -30, operations |-> 30],
      other_category |-> "security",
      other_attendees |-> <<"Executive Sponsor", "Data Team">>,
      systems_threshold |-> 3],
     [nudge |-> [security |-> 0, compliance |-> 30, operations |-> 0],
      other_category |-> "compliance",
      other_attendees |-> <<"Engineering">>,
      systems_threshold |-> 4]}

\* alert_types[alert_type]['category']
Category(impl, alert_type) ==
    CASE alert_type = "security_incident" -> "security"
      [] alert_type = "compliance_violation" -> "compliance"
      [] OTHER -> impl.other_category

\* alert_types[alert_type]['typical_attendees']
TypicalAttendees(impl, alert_type) ==
    CASE alert_type = "system_failure" -> <<"DevOps", "SRE">>
      [] alert_type = "compliance_violation" -> <<"Compliance Officer", "Legal">>
      [] alert_type = "security_incident" -> <<"Security Team", "CISO">>
      [] OTHER -> impl.other_attendees

\* base score per severity
BaseScore(severity) ==
    CASE severity = "critical" -> 90
      [] severity = "high" -> 70
      [] severity = "medium" -> 45
      [] severity = "low" -> 20

\* the band of a severity: its floor and the highest score below the next
\* band
BandFloor(severity) ==
    CASE severity = "critical" -> 80
      [] severity = "high" -> 60
      [] severity = "medium" -> 40
      [] severity = "low" -> 0

BandTop(severity) ==
    CASE severity = "critical" -> 100
      [] severity = "high" -> 79
      [] severity = "medium" -> 59
      [] severity = "low" -> 39

\* a score that the weight of the alert type moves out of the band
ScoreUnclamped(impl, severity, alert_type) ==
    BaseScore(severity) + impl.nudge[Category(impl, alert_type)]

\* the base score nudged by the weight of the alert type, kept inside the
\* band of the severity
Score(impl, severity, alert_type) ==
    MaxNat(BandFloor(severity),
           MinNat(BandTop(severity),
                  BaseScore(severity) + impl.nudge[Category(impl, alert_type)]))

\* the level of a score
Level(score) ==
    IF score >= 80 THEN "CRITICAL"
    ELSE IF score >= 60 THEN "HIGH"
    ELSE IF score >= 40 THEN "MEDIUM"
    ELSE "LOW"

\* the recommended response time of a level
ResponseTime(level) ==
    CASE level = "CRITICAL" -> "< 1 hour"
      [] level = "HIGH" -> "< 4 hours"
      [] level = "MEDIUM" -> "< 1 business day"
      [] level = "LOW" -> "< 1 week"

\* urgency(severity, alert_type)
CalculateUrgency(impl, severity, alert_type) ==
    LET score == Score(impl, severity, alert_type)
    IN  [level |-> Level(score), score |-> score,
         recommended_response_time |-> ResponseTime(Level(score))]

\* the bucket of a severity
SeverityDuration(severity) ==
    CASE severity = "critical" -> 60
      [] severity = "high" -> 45
      [] severity = "medium" -> 30
      [] severity = "low" -> 15

\* a duration that many affected systems shorten
RecommendDurationShortened(impl, severity, affected_systems) ==
    IF affected_systems >= impl.systems_threshold
    THEN MaxNat(15, SeverityDuration(severity) - 15)
    ELSE SeverityDuration(severity)

\* duration(severity, affected_systems): the bucket of the severity, one
\* bucket more when many systems are affected, 60 minutes at most;
\* affected_systems is the number of systems
RecommendDuration(impl, severity, affected_systems) ==
    IF affected_systems >= impl.systems_threshold
    THEN MinNat(60, SeverityDuration(severity) + 15)
    ELSE SeverityDuration(severity)

\* an escalation appended whether or not the role is on the list
AppendAlways(attendees, role) == Append(attendees, role)

\* an escalation: the role is appended if absent
AppendIfAbsent(attendees, role) ==
    IF \E i \in DOMAIN attendees : attendees[i] = role
    THEN attendees
    ELSE Append(attendees, role)

Escalated(severity) == severity \in {"critical", "high"}

SecurityOrCompliance(impl, alert_type) ==
    \/ alert_type \in {"security_incident", "compliance_violation"}
    \/ Category(impl, alert_type) \in {"compliance", "security"}

\* attendees(alert_type, severity)
SuggestAttendees(impl, alert_type, severity) ==
    LET base == TypicalAttendees(impl, alert_type)
        managed == IF Escalated(severity)
                   THEN AppendIfAbsent(base, "Management")
                   ELSE base
    IN  IF Escalated(severity) /\ SecurityOrCompliance(impl, alert_type)
        THEN AppendIfAbsent(managed, "Executive Sponsor")
        ELSE managed

NoAssessment == [fn |-> "none"]

\* an agent whose contexts are empty and that has answered nothing;
\* seen_meeting and seen_alert are history: the context of the last process
\* run with an id
NewAgent(impl) ==
    [impl |-> impl, by_meeting |-> <<>>, by_alert |-> <<>>,
     seen_meeting |-> <<>>, seen_alert |-> <<>>, answer |-> NoAssessment,
     prev |-> NoAssessment, last |-> NoAssessment]

InitAssess == \E impl \in Implementations : mctx = NewAgent(impl)

Assessed(call) == mctx' = [mctx EXCEPT !.prev = mctx.last, !.last = call]

\* _calculate_urgency({'severity': severity, 'alert_type': alert_type})
UrgencyCall(severity, alert_type) ==
    Assessed([fn |-> "urgency", severity |-> severity,
              alert_type |-> alert_type,
              urgency |-> CalculateUrgency(mctx.impl, severity, alert_type)])

\* _recommend_duration({'severity': severity, 'affected_systems': [...]})
DurationCall(severity, affected_systems) ==
    Assessed([fn |-> "duration", severity |-> severity,
              affected_systems |-> affected_systems,
              duration |-> RecommendDuration(mctx.impl, severity,
                                             affected_systems)])

\* _suggest_attendees({'alert_type': alert_type, 'severity': severity})
AttendeesCall(alert_type, severity) ==
    Assessed([fn |-> "attendees", severity |-> severity,
              alert_type |-> alert_type,
              attendees |-> SuggestAttendees(mctx.impl, alert_type, severity)])

MeetingIds == {"m1", "m2"}

\* the alerts process is run with in the lookups' specification
ProcessedSeverities == {"critical", "low"}

\* lookup miss: null
Null == [status |-> "null"]

\* the context process builds: urgency, duration and attendees of the alert
MeetingContext(impl, meeting_id, alert_id, severity, alert_type, systems) ==
    [meeting_id |-> meeting_id, alert_id |-> alert_id,
     urgency |-> CalculateUrgency(impl, severity, alert_type),
     recommended_duration |-> RecommendDuration(impl, severity, systems),
     suggested_attendees |-> SuggestAttendees(impl, alert_type, severity),
     status |-> "SCHEDULED"]

\* f with key k set to v
Put(f, k, v) == [x \in DOMAIN f \cup {k} |-> IF x = k THEN v ELSE f[x]]

\* the context is stored keyed by meeting_id and by alert_id (if present)
StoreContext(agent, context) ==
    [agent EXCEPT
        !.by_meeting = Put(@, context.meeting_id, context),
        !.by_alert = IF context.alert_id = None THEN @
                     ELSE Put(@, context.alert_id, context)]

\* a lookup that raises on a miss
LookupRaising(contexts, id) ==
    IF id \in DOMAIN contexts
    THEN [result |-> contexts[id], raised |-> FALSE]
    ELSE [result |-> Null, raised |-> TRUE]

\* lookupByAlert / lookupByMeetingId: the stored context, null on a miss
Lookup(contexts, id) ==
    IF id \in DOMAIN contexts
    THEN [result |-> contexts[id], raised |-> FALSE]
    ELSE [result |-> Null, raised |-> FALSE]

\* explain(meeting_id): a summary of the stored context, or the sentinel
ExplainMeeting(contexts, meeting_id) ==
    IF meeting_id \in DOMAIN contexts
    THEN [result |-> [text |-> "summary", context |-> contexts[meeting_id]],
          raised |-> FALSE]
    ELSE [result |-> [text |-> "No context found", meeting_id |-> meeting_id],
          raised |-> FALSE]

\* an answer, with what the history knows of the id at the time of the call
Answered(fn, id, seen, out) ==
    mctx' = [mctx EXCEPT !.answer =
                [fn |-> fn, id |-> id, result |-> out.result,
                 raised |-> out.raised, known |-> id \in DOMAIN seen,
                 latest |-> IF id \in DOMAIN seen THEN seen[id] ELSE Null]]

InitMeeting == \E impl \in Implementations : mctx = NewAgent(impl)

\* process(meetingData, enrichedAlert)
Process(meeting_id, alert_id, severity, alert_type, systems) ==
    LET context == MeetingContext(mctx.impl, meeting_id, alert_id, severity,
                                  alert_type, systems)
        stored == StoreContext(mctx, context)
    IN  mctx' = [stored EXCEPT
                    !.seen_meeting = Put(@, meeting_id, context),
                    !.seen_alert = IF alert_id = None THEN @
                                   ELSE Put(@, alert_id, context)]

\* get_meeting_context_by_alert(alert_id)
GetMeetingContextByAlert(alert_id) ==
    Answered("get_meeting_context_by_alert", alert_id, mctx.seen_alert,
             Lookup(mctx.by_alert, alert_id))

\* get_meeting_context_by_meeting_id(meeting_id)
GetMeetingContextByMeetingId(meeting_id) ==
    Answered("get_meeting_context_by_meeting_id", meeting_id, mctx.seen_meeting,
             Lookup(mctx.by_meeting, meeting_id))

\* explain_meeting(meeting_id)
Explain(meeting_id) ==
    Answered("explain_meeting", meeting_id, mctx.seen_meeting,
             ExplainMeeting(mctx.by_meeting, meeting_id))

(***************************************************************************)
(* Specifications.                                                         *)
(***************************************************************************)
IdleRetry == RetryStart(DefaultMaxRetries, DefaultInitialDelay,
                        DefaultMaxDelay, DefaultBackoffFactor)

SpecRateInit ==
    /\ InitRate /\ rt = IdleRetry /\ IdleWeb /\ auth = IdleAuth /\ IdleOrch /\ IdleExt

SpecRateNext ==
    \/ \E ip \in IPs : RateCall(ip) /\ UNCHANGED <<retryVars, webVars, authVars,
                                                  orchVars, extVars>>
    \/ Tick /\ UNCHANGED <<retryVars, webVars, authVars, orchVars, extVars>>

SpecRate == SpecRateInit /\ [][SpecRateNext]_vars

SpecRetryInit ==
    /\ InitRetry /\ IdleRate /\ IdleWeb /\ auth = IdleAuth /\ IdleOrch /\ IdleExt

SpecRetryNext ==
    \/ RetryInvoke /\ UNCHANGED <<rateVars, webVars, authVars, orchVars, extVars>>
    \/ RetryWake /\ UNCHANGED <<rateVars, webVars, authVars, orchVars, extVars>>

SpecRetry == SpecRetryInit /\ [][SpecRetryNext]_vars

\* the alert webhook with its key and its secret configured (without a key
\* every request passes verify_api_key, as one with the right key does here),
\* under concurrent, validly signed requests that arrive
\* within one tick of the clock (the window of 60 s never slides); the
\* external services answer a request that timed out as one they never saw,
\* and every meeting id they hand out is named after the request it answers
Init ==
    /\ InitWeb
    /\ cfg.webhook_api_key # None
    /\ cfg.webhook_secret_key # None
    /\ IdleRate
    /\ rt = IdleRetry
    /\ auth = IdleAuth
    /\ IdleOrch /\ IdleExt

\* the client and the alert of the first request are named "ip1" and "a1"
FirstSeen(first, names, r) == IF r = 1 THEN {first} ELSE names

Next ==
    /\ \E r \in Requests :
           HandlerStep(r, FirstSeen("ip1", IPs, r), FirstSeen("a1", AlertIds, r),
                       {"valid"})
    /\ UNCHANGED <<authVars, orchVars, extVars>>

Spec == Init /\ [][Next]_vars

\* one alert webhook request with any headers, from any client
SpecGateInit ==
    /\ InitWeb /\ IdleRate /\ rt = IdleRetry /\ auth = IdleAuth /\ IdleOrch /\ IdleExt

SpecGateNext == HandlerStep(1, IPs, AlertIds, Signatures) /\ UNCHANGED <<authVars, orchVars, extVars>>

\* the security functions, called with any headers at any of the times SigTicks
SpecAuthInit ==
    /\ InitAuth
    /\ store = <<>>
    /\ rl_cfg = [max_requests |-> HandlerMaxRequests,
                 window_seconds |-> DefaultWindowSeconds]
    /\ admitted = [ip \in IPs |-> <<>>]
    /\ rl_last = NoCall
    /\ was_rejected = {}
    /\ rt = IdleRetry
    /\ req = [r \in Requests |-> IdleRequest]
    /\ alerts_db = {} /\ meetings_db = {} /\ webhook_logs = {}
    /\ slotify = {} /\ chainsync = {} /\ learning_history = {}
    /\ IdleOrch /\ IdleExt

SpecAuthNext ==
    \/ \E k \in ApiKeys : KeyCheck(k)
    \/ \E payload \in SignedPayloads : \E k \in SecretChoices :
           SigGenerate(payload, k)
    \/ \E b \in Bodies : \E sg \in SignatureHeaders : \E ts \in TimestampHeaders :
           SigVerify(b, sg, ts)
    \/ SigTick

SpecAuth == SpecAuthInit /\ [][SpecAuthNext]_vars

SpecGate == SpecGateInit /\ [][SpecGateNext]_vars

SpecRetryFair == SpecRetry /\ WF_vars(SpecRetryNext)

\* one call of execute_parallel_agents with up to MaxTasks tasks
SpecParallelInit ==
    /\ InitParallel
    /\ wf = Unused /\ mctx = Unused /\ client = Unused
    /\ IdleExt
    /\ IdleRate /\ rt = IdleRetry /\ IdleWeb /\ auth = IdleAuth

SpecParallelNext ==
    \/ ParallelStart
           /\ UNCHANGED <<rateVars, retryVars, webVars, authVars, wf, mctx, client, extVars>>
    \/ \E k \in 1..MaxTasks : \E o \in AgentRunOutcomes :
           AgentRequestDone(k, o)
           /\ UNCHANGED <<rateVars, retryVars, webVars, authVars, wf, mctx, client, extVars>>
    \/ ParallelGather
           /\ UNCHANGED <<rateVars, retryVars, webVars, authVars, wf, mctx, client, extVars>>

SpecParallel == SpecParallelInit /\ [][SpecParallelNext]_vars

\* MaxRuns concurrent runs of multi_agent_workflow on one orchestrator
SpecWorkflowInit ==
    /\ InitWorkflow
    /\ par = Unused /\ mctx = Unused /\ client = Unused
    /\ IdleExt
    /\ IdleRate /\ rt = IdleRetry /\ IdleWeb /\ auth = IdleAuth

SpecWorkflowNext ==
    \/ \E r \in Runs : \E workflow_name \in WorkflowNames :
           WorkflowStart(r, workflow_name)
           /\ UNCHANGED <<rateVars, retryVars, webVars, authVars, par, mctx, client, extVars>>
    \/ \E r \in Runs : \E o \in StepOutcomes :
           IncidentStep(r, o)
           /\ UNCHANGED <<rateVars, retryVars, webVars, authVars, par, mctx, client, extVars>>
    \/ \E r \in Runs : \E o \in StepOutcomes : \E violations \in 0..MaxViolations :
           ComplianceStep(r, o, violations)
           /\ UNCHANGED <<rateVars, retryVars, webVars, authVars, par, mctx, client, extVars>>

SpecWorkflow == SpecWorkflowInit /\ [][SpecWorkflowNext]_vars

\* the operations of the two service clients, with and without API keys
SpecClientInit ==
    /\ InitClient
    /\ store = <<>>
    /\ rl_cfg = [max_requests |-> HandlerMaxRequests,
                 window_seconds |-> DefaultWindowSeconds]
    /\ admitted = [ip \in IPs |-> <<>>]
    /\ rl_last = NoCall
    /\ was_rejected = {}
    /\ rt = IdleRetry
    /\ req = [r \in Requests |-> IdleRequest]
    /\ alerts_db = {} /\ meetings_db = {} /\ webhook_logs = {}
    /\ slotify = {} /\ chainsync = {} /\ learning_history = {}
    /\ auth = IdleAuth
    /\ par = Unused /\ wf = Unused /\ mctx = Unused
    /\ IdleExt

SpecClientNext ==
    \/ \E op \in SlotifyOps \cup ChainSyncOps : \E arg \in ClientArgs :
       \E o \in ServiceOutcomes : ClientCall(op, arg, o)
    \/ ClientTick

SpecClient == SpecClientInit /\ [][SpecClientNext]_vars

\* the urgency, duration and attendee functions of one agent, called with
\* any severity, alert type and number of affected systems
SpecAssessInit ==
    /\ InitAssess
    /\ par = Unused /\ wf = Unused /\ client = Unused
    /\ IdleExt
    /\ IdleRate /\ rt = IdleRetry /\ IdleWeb /\ auth = IdleAuth

SpecAssessNext ==
    \/ \E severity \in Severities : \E alert_type \in AlertTypes :
           UrgencyCall(severity, alert_type)
           /\ UNCHANGED <<rateVars, retryVars, webVars, authVars, par, wf, client, extVars>>
    \/ \E severity \in Severities : \E n \in 0..MaxSystems :
           DurationCall(severity, n)
           /\ UNCHANGED <<rateVars, retryVars, webVars, authVars, par, wf, client, extVars>>
    \/ \E severity \in Severities : \E alert_type \in AlertTypes :
           AttendeesCall(alert_type, severity)
           /\ UNCHANGED <<rateVars, retryVars, webVars, authVars, par, wf, client, extVars>>

SpecAssess == SpecAssessInit /\ [][SpecAssessNext]_vars

\* one agent: process runs and lookups, in any order
SpecMeetingInit ==
    /\ InitMeeting
    /\ par = Unused /\ wf = Unused /\ client = Unused
    /\ IdleExt
    /\ IdleRate /\ rt = IdleRetry /\ IdleWeb /\ auth = IdleAuth

SpecMeetingNext ==
    \/ \E meeting_id \in MeetingIds : \E alert_id \in AlertIds \cup {None} :
       \E severity \in ProcessedSeverities :
           Process(meeting_id, alert_id, severity, "security_incident", 0)
           /\ UNCHANGED <<rateVars, retryVars, webVars, authVars, par, wf, client, extVars>>
    \/ \E alert_id \in AlertIds :
           GetMeetingContextByAlert(alert_id)
           /\ UNCHANGED <<rateVars, retryVars, webVars, authVars, par, wf, client, extVars>>
    \/ \E meeting_id \in MeetingIds :
           GetMeetingContextByMeetingId(meeting_id)
           /\ UNCHANGED <<rateVars, retryVars, webVars, authVars, par, wf, client, extVars>>
    \/ \E meeting_id \in MeetingIds :
           Explain(meeting_id)
           /\ UNCHANGED <<rateVars, retryVars, webVars, authVars, par, wf, client, extVars>>

SpecMeeting == SpecMeetingInit /\ [][SpecMeetingNext]_vars

(***************************************************************************)
(* RedisRateLimitStore beside InMemoryRateLimitStore: both stores are      *)
(* given the same calls at the same times.  A sorted set is a set of       *)
(* [member, score] records with one record per member.                     *)
(***************************************************************************)
\* the calls made on the two stores are at most MaxStoreCalls
MaxStoreCalls == 4

\* key = f"rate_limit:{client_ip}"
RedisKey(client_ip) == <<"rate_limit:", client_ip>>

\* str(timestamp), the member of the sorted set, and float(ts) of a member
StrOf(timestamp) == <<"str", timestamp>>
FloatOf(member) == member[2]

\* the sorted set stored at key; a key that does not exist is an empty set
ZSet(rd, key) == IF key \in DOMAIN rd THEN rd[key] ELSE {}

\* a key whose sorted set becomes empty no longer exists
ZStore(rd, key, z) ==
    [k \in (IF z = {} THEN DOMAIN rd \ {key} ELSE DOMAIN rd \cup {key}) |->
        IF k = key THEN z ELSE rd[k]]

\* ZADD key score member: a member that is present only has its score set
ZAdd(rd, key, member, score) ==
    ZStore(rd, key, {e \in ZSet(rd, key) : e.member # member}
                        \cup {[member |-> member, score |-> score]})

\* ZREMRANGEBYSCORE key min max: both ends are inclusive
ZRemRangeByScore(rd, key, min, max) ==
    ZStore(rd, key, {e \in ZSet(rd, key) : ~(min <= e.score /\ e.score <= max)})

\* ZRANGE key 0 -1: the members, by increasing score
RECURSIVE ZRange(_)
ZRange(z) ==
    IF z = {} THEN <<>>
    ELSE LET first == CHOOSE e \in z : \A f \in z : e.score <= f.score
         IN  <<first.member>> \o ZRange(z \ {first})

\* RedisRateLimitStore.add_request
RedisAddRequest(rd, client_ip, timestamp) ==
    ZAdd(rd, RedisKey(client_ip), StrOf(timestamp), timestamp)

\* RedisRateLimitStore.get_requests
RedisGetRequests(rd, client_ip, current_time, window_seconds) ==
    LET key == RedisKey(client_ip)
        min_time == current_time - WindowTicks(window_seconds)
        trimmed == ZRemRangeByScore(rd, key, 0, min_time)
        timestamps == ZRange(ZSet(trimmed, key))
    IN  [recent |-> [i \in DOMAIN timestamps |-> FloatOf(timestamps[i])],
         store |-> trimmed]

\* rate_limit_check with rate_limit_store a RedisRateLimitStore, whose
\* cleanup_old_entries does nothing
RedisRateLimitCheck(rd, client_ip, max_requests, window_seconds, t1, t2) ==
    LET got == RedisGetRequests(rd, client_ip, t2, window_seconds)
    IN  IF LimitExceeded(got.recent, max_requests)
        THEN [ok |-> FALSE, status |-> 429, store |-> got.store]
        ELSE [ok |-> TRUE, status |-> 200,
              store |-> RedisAddRequest(got.store, client_ip, t1)]

NoStoreCall == [op |-> None, ip |-> None, mem |-> 0, redis |-> 0]

InitStores ==
    /\ \E max_requests \in 1..MaxRateRequests :
       \E window_seconds \in 1..MaxWindowSeconds :
           stores = [mem |-> <<>>, redis |-> <<>>, calls |-> 0,
                     max_requests |-> max_requests,
                     window_seconds |-> window_seconds,
                     last |-> NoStoreCall]

\* add_request(client_ip, now) on either store
StoresAddRequest(client_ip) ==
    /\ stores.calls < MaxStoreCalls
    /\ stores' = [stores EXCEPT
           !.mem = AddRequest(@, client_ip, now),
           !.redis = RedisAddRequest(@, client_ip, now),
           !.calls = @ + 1,
           !.last = [op |-> "add_request", ip |-> client_ip, mem |-> 0, redis |-> 0]]
    /\ UNCHANGED now

\* get_requests(client_ip, window_seconds) on either store, at the same time
StoresGetRequests(client_ip) ==
    /\ stores.calls < MaxStoreCalls
    /\ LET m == GetRequests(stores.mem, client_ip, now, stores.window_seconds)
           r == RedisGetRequests(stores.redis, client_ip, now,
                                 stores.window_seconds)
       IN  stores' = [stores EXCEPT
               !.mem = m.store, !.redis = r.store, !.calls = @ + 1,
               !.last = [op |-> "get_requests", ip |-> client_ip,
                         mem |-> Len(m.recent), redis |-> Len(r.recent)]]
    /\ UNCHANGED now

\* rate_limit_check(client_ip, max_requests, window_seconds) on either store
StoresRateLimitCheck(client_ip) ==
    /\ stores.calls < MaxStoreCalls
    /\ \E cleanup \in BOOLEAN :
        LET m == RateLimitCheck(stores.mem, client_ip, stores.max_requests,
                                stores.window_seconds, now, now, now, cleanup)
            r == RedisRateLimitCheck(stores.redis, client_ip,
                                     stores.max_requests,
                                     stores.window_seconds, now, now)
        IN  stores' = [stores EXCEPT
                !.mem = m.store, !.redis = r.store, !.calls = @ + 1,
                !.last = [op |-> "rate_limit_check", ip |-> client_ip,
                          mem |-> m.status, redis |-> r.status]]
    /\ UNCHANGED now

\* time passes between two calls
StoresTick ==
    /\ now < MaxTime
    /\ now' = now + 1
    /\ UNCHANGED stores

SpecStoresInit ==
    /\ InitStores
    /\ twin = Unused /\ route = Unused
    /\ IdleOrch
    /\ IdleRate /\ rt = IdleRetry /\ IdleWeb /\ auth = IdleAuth

SpecStoresNext ==
    \/ \E ip \in IPs : StoresAddRequest(ip)
           /\ UNCHANGED <<store, rl_cfg, admitted, rl_last, was_rejected,
                          retryVars, webVars, authVars, orchVars, twin, route>>
    \/ \E ip \in IPs : StoresGetRequests(ip)
           /\ UNCHANGED <<store, rl_cfg, admitted, rl_last, was_rejected,
                          retryVars, webVars, authVars, orchVars, twin, route>>
    \/ \E ip \in IPs : StoresRateLimitCheck(ip)
           /\ UNCHANGED <<store, rl_cfg, admitted, rl_last, was_rejected,
                          retryVars, webVars, authVars, orchVars, twin, route>>
    \/ StoresTick
           /\ UNCHANGED <<store, rl_cfg, admitted, rl_last, was_rejected,
                          retryVars, webVars, authVars, orchVars, twin, route>>

SpecStores == SpecStoresInit /\ [][SpecStoresNext]_vars

(***************************************************************************)
(* Two runs of one sequence of rate_limit_check calls: the same clients at *)
(* the same clock reads, the random cleanup firing in each run on its own. *)
(***************************************************************************)
NoTwinCall == [ip |-> None, a |-> 0, b |-> 0, differed |-> FALSE]

InitTwin ==
    /\ \E max_requests \in 1..MaxRateRequests :
       \E window_seconds \in 1..MaxWindowSeconds :
           twin = [a |-> <<>>, b |-> <<>>,
                   max_requests |-> max_requests,
                   window_seconds |-> window_seconds,
                   last |-> NoTwinCall]

\* rate_limit_check(client_ip, max_requests, window_seconds) in both runs;
\* cleanup_a and cleanup_b are the outcomes of random.randint(1, 100) == 1
TwinCall(client_ip, cleanup_a, cleanup_b) ==
    \E t2 \in ClockReads(now) : \E t3 \in ClockReads(t2) :
        LET a == RateLimitCheck(twin.a, client_ip, twin.max_requests,
                                twin.window_seconds, now, t2, t3, cleanup_a)
            b == RateLimitCheck(twin.b, client_ip, twin.max_requests,
                                twin.window_seconds, now, t2, t3, cleanup_b)
        IN  /\ twin' = [twin EXCEPT
                   !.a = a.store, !.b = b.store,
                   !.last = [ip |-> client_ip, a |-> a.status, b |-> b.status,
                             differed |-> twin.a # twin.b]]
            /\ now' = t3

\* time passes between two calls
TwinTick ==
    /\ now < MaxTime
    /\ now' = now + 1
    /\ UNCHANGED twin

SpecTwinInit ==
    /\ InitTwin
    /\ stores = Unused /\ route = Unused
    /\ IdleOrch
    /\ IdleRate /\ rt = IdleRetry /\ IdleWeb /\ auth = IdleAuth

SpecTwinNext ==
    \/ \E ip \in IPs : \E cleanup_a, cleanup_b \in BOOLEAN :
           TwinCall(ip, cleanup_a, cleanup_b)
           /\ UNCHANGED <<store, rl_cfg, admitted, rl_last, was_rejected,
                          retryVars, webVars, authVars, orchVars, stores, route>>
    \/ TwinTick
           /\ UNCHANGED <<store, rl_cfg, admitted, rl_last, was_rejected,
                          retryVars, webVars, authVars, orchVars, stores, route>>

SpecTwin == SpecTwinInit /\ [][SpecTwinNext]_vars

(***************************************************************************)
(* AgentOrchestrator.route_request and the learning task it spawns.        *)
(***************************************************************************)
\* the orchestrator serves MaxRoutes route_request calls
MaxRoutes == 2

Routes == 1..MaxRoutes

\* the request_type of the calls: keys of routing_map, one of them in upper
\* case, and a type that is no key
RequestTypes == {"query", "RCA", "learning", "no_such_type"}

\* routing_map.get(request_type.lower())
AgentNameOf(request_type) ==
    LET lower == IF request_type = "RCA" THEN "rca" ELSE request_type
        routing_map ==
            [query |-> "natural_language_query",
             nl_query |-> "natural_language_query",
             failure_analysis |-> "root_cause_analysis",
             rca |-> "root_cause_analysis",
             compliance_check |-> "compliance_autopilot",
             compliance |-> "compliance_autopilot",
             chat |-> "memory_enabled",
             conversation |-> "memory_enabled",
             problem_solving |-> "multi_step_reasoning",
             reasoning |-> "multi_step_reasoning",
             learning |-> "continuous_learning",
             meeting |-> "meeting_context",
             meeting_context |-> "meeting_context",
             slotify |-> "meeting_context"]
    IN  IF lower \in DOMAIN routing_map THEN routing_map[lower] ELSE None

NoResponse == [kind |-> "none"]

IdleRoute == [request_type |-> None, pc |-> "idle", agent_calls |-> 0,
              result |-> NoResponse, response |-> NoResponse,
              spawned |-> 0, task |-> "none"]

\* the learning is awaited to its end before route_request goes on
LearnFromInteractionAwaited(q) ==
    [q EXCEPT !.spawned = @ + 1, !.task = "done"]

\* _learn_from_interaction: asyncio.create_task(...) schedules the learning
\* and returns; the task has not run yet
LearnFromInteraction(q) ==
    [q EXCEPT !.spawned = @ + 1, !.task = "pending"]

InitRoute == route = [r \in Routes |-> IdleRoute]

\* route_request(request_type, request_data) up to its first await
RouteRequest(r, request_type) ==
    /\ route[r].pc = "idle"
    /\ route' = [route EXCEPT ![r] =
           IF AgentNameOf(request_type) = None
           THEN [@ EXCEPT !.request_type = request_type, !.pc = "returned",
                          !.response =
                              [error |-> <<"Unknown request type: ", request_type>>,
                               available_types |-> "routing_map.keys()"]]
           ELSE [@ EXCEPT !.request_type = request_type, !.pc = "execute",
                          !.agent_calls = @ + 1]]

\* _execute_agent_request returns, _learn_from_interaction is run, and
\* route_request returns the result
AgentRequestReturns(r, o) ==
    /\ route[r].pc = "execute"
    /\ LET result == ExecuteAgentRequest(AgentNameOf(route[r].request_type), r, o)
           learnt == LearnFromInteraction([route[r] EXCEPT !.result = result])
       IN  route' = [route EXCEPT ![r] =
               [learnt EXCEPT !.pc = "returned", !.response = result]]

\* the event loop runs the learning task of call r to its end
LearningTaskDone(r, o) ==
    /\ route[r].task = "pending"
    /\ route' = [route EXCEPT ![r].task = IF o = "ok" THEN "done" ELSE "failed"]

SpecRouteInit ==
    /\ InitRoute
    /\ stores = Unused /\ twin = Unused
    /\ IdleOrch
    /\ IdleRate /\ rt = IdleRetry /\ IdleWeb /\ auth = IdleAuth

SpecRouteNext ==
    \/ \E r \in Routes : \E request_type \in RequestTypes :
           RouteRequest(r, request_type)
           /\ UNCHANGED <<rateVars, retryVars, webVars, authVars, orchVars,
                          stores, twin>>
    \/ \E r \in Routes : \E o \in AgentRunOutcomes :
           AgentRequestReturns(r, o)
           /\ UNCHANGED <<rateVars, retryVars, webVars, authVars, orchVars,
                          stores, twin>>
    \/ \E r \in Routes : \E o \in AgentRunOutcomes :
           LearningTaskDone(r, o)
           /\ UNCHANGED <<rateVars, retryVars, webVars, authVars, orchVars,
                          stores, twin>>

SpecRoute == SpecRouteInit /\ [][SpecRouteNext]_vars

(***************************************************************************)
(* Properties of rate_limit_check (SpecRate).                              *)
(***************************************************************************)
StoredRecent(ip) ==
    IF ip \in DOMAIN store
    THEN YoungAt(store[ip], now, rl_cfg.window_seconds)
    ELSE <<>>

\* C3: a call is admitted iff fewer than max_requests earlier admitted calls
\* of the same ip are less than window_seconds old when the window is read;
\* a refused call gets 429 and is not counted: the store's timestamps inside
\* the window are exactly the admitted ones.
C3_AdmitIffUnderLimit ==
    /\ rl_last.ip # None =>
          /\ rl_last.ok <=> rl_last.prior < rl_cfg.max_requests
          /\ ~rl_last.ok => rl_last.status = 429
    /\ \A ip \in IPs : StoredRecent(ip) = admitted[ip]
    /\ \A ip \in IPs : Len(admitted[ip]) <= rl_cfg.max_requests

\* an ip that was refused is admitted again once its window has emptied
C3_Witness ==
    /\ rl_last.ok
    /\ rl_last.ip \in was_rejected
    /\ rl_last.prior = 0

(***************************************************************************)
(* Properties of retry_with_backoff (SpecRetry).                           *)
(***************************************************************************)
ClientError(o) == o.kind = "HTTPStatusError" /\ o.code < 500

RetryableError(o) ==
    \/ o.kind \in {"TimeoutException", "NetworkError", "ConnectError"}
    \/ o.kind = "HTTPStatusError" /\ o.code >= 500

AllRetryable(outs) == \A i \in DOMAIN outs : RetryableError(outs[i])

RetryDone == rt.pc \in {"returned", "raised"}

\* C4: a status error below 500 is the last invocation: it is raised at once,
\* as it is, with no sleep after it, whatever the attempt it occurs at.
C4_ClientErrorNotRetried ==
    \A i \in DOMAIN rt.outs :
        ClientError(rt.outs[i]) =>
            /\ i = Len(rt.outs)
            /\ rt.calls = i
            /\ rt.pc = "raised"
            /\ rt.exc = rt.outs[i]
            /\ Len(rt.waits) = i - 1

\* a 4xx at a later attempt, after retried failures
C4_Witness ==
    /\ Len(rt.outs) >= 2
    /\ ClientError(rt.outs[Len(rt.outs)])
    /\ rt.pc = "raised"

\* C5: while only retryable failures have occurred, at most max_retries of
\* them, the run has not given up; a success that follows them is returned,
\* after exactly that many invocations plus one.
C5_SuccessAfterRetries ==
    LET n == Len(rt.outs)
    IN  /\ (AllRetryable(rt.outs) /\ n <= rt.max_retries) =>
               /\ rt.pc \in {"call", "sleep"}
               /\ rt.calls = n
        /\ (n >= 1 /\ rt.outs[n].kind = "ok") =>
               /\ rt.pc = "returned"
               /\ rt.result = n
               /\ rt.calls = n
               /\ AllRetryable(SubSeq(rt.outs, 1, n - 1))

\* max_retries retryable failures, then the success
C5_Witness ==
    /\ rt.max_retries >= 2
    /\ Len(rt.outs) = rt.max_retries + 1
    /\ rt.outs[Len(rt.outs)].kind = "ok"
    /\ rt.pc = "returned"

\* C6: the operation is never invoked more than max_retries + 1 times, a run
\* that only ever met retryable failures ends after exactly max_retries + 1
\* invocations, and every run ends.
C6_Terminates ==
    /\ [](/\ rt.calls <= rt.max_retries + 1
          /\ (rt.pc = "raised" /\ AllRetryable(rt.outs)) =>
                 rt.calls = rt.max_retries + 1)
    /\ <>RetryDone

\* the run that failed on every attempt
C6_Witness ==
    /\ rt.pc = "raised"
    /\ rt.max_retries >= 1
    /\ AllRetryable(rt.outs)
    /\ rt.calls = rt.max_retries + 1

(***************************************************************************)
(* The alert webhook.                                                      *)
(***************************************************************************)
HasAlertRow(r) == \E a \in alerts_db : a.request = r
HasMeetingRow(r) == \E m \in meetings_db : m.request = r
IsPrefix(s, t) == Len(s) <= Len(t) /\ \A i \in 1..Len(s) : s[i] = t[i]

\* C1: when a webhook secret is configured, a request whose signature header
\* is missing or invalid never reaches the workflow: its handler ends in a
\* rejection.
C1_SignatureGatesWorkflow ==
    \A r \in Requests :
        (cfg.webhook_secret_key # None /\ req[r].pc # "idle"
            /\ req[r].sig \in {"missing", "invalid"})
        => req[r].pc = "rejected"

RejectionStatuses == {429, 401, 403}

\* C2: a request answered 429, 401 or 403 by the rate limiter or the API key
\* check did nothing else: no agent ran, no outbound call was made, no Alert
\* or Meeting row was written and nothing was learned from it.
C2_RejectedDoesNothing ==
    \A r \in Requests :
        req[r].status \in RejectionStatuses
        => /\ req[r].pc = "rejected"
           /\ req[r].trace = <<>>
           /\ req[r].outbound = {}
           /\ ~HasAlertRow(r) /\ ~HasMeetingRow(r)
           /\ r \notin learning_history
           /\ \A l \in webhook_logs : l.request # r
           /\ \A m \in slotify : m.meeting_id # <<"slotify", r>>

C2_Witness ==
    \E r1, r2 \in Requests :
        /\ req[r1].pc = "rejected" /\ req[r1].status = 429
        /\ req[r2].pc = "rejected" /\ req[r2].status \in {401, 403}

\* the steps C7 names, in the order it names them
ClaimOrder == <<"rca", "compliance", "meeting_context", "create_meeting",
                "update_status", "add_comment", "persist">>

NamedDone(r) == SelectSeq(req[r].trace, LAMBDA st : st \in Range(ClaimOrder))

\* C7: the steps of one alert request complete in the order RCA, compliance,
\* meeting context, external meeting creation, alert status update, comment,
\* persistence, and the step in progress is the one right after the completed
\* ones: none starts before the previous one has completed.
C7_StepsInOrder ==
    \A r \in Requests :
        /\ IsPrefix(NamedDone(r), ClaimOrder)
        /\ req[r].pc \in Range(ClaimOrder)
             => req[r].pc = ClaimOrder[Len(NamedDone(r)) + 1]

C7_Witness ==
    \E r \in Requests : req[r].pc = "done" /\ NamedDone(r) = ClaimOrder

ExternalSteps == {"create_meeting", "update_status", "add_comment"}

\* C8: a request has an Alert or Meeting row only if its meeting creation, its
\* status update and its comment all succeeded; a request one of whose
\* external calls failed has no row.
C8_RecordsOnlyAfterExternalSuccess ==
    \A r \in Requests :
        /\ (HasAlertRow(r) \/ HasMeetingRow(r))
             => ExternalSteps \subseteq Range(req[r].trace)
        /\ (req[r].pc = "failed" /\ req[r].failed_step \in ExternalSteps)
             => ~HasAlertRow(r) /\ ~HasMeetingRow(r)

C8_Witness ==
    \E r1, r2 \in Requests :
        /\ HasAlertRow(r1) /\ HasMeetingRow(r1)
        /\ req[r2].pc = "failed" /\ req[r2].failed_step \in ExternalSteps

\* C9: the learning write is fire-and-forget: a failure of the learning write
\* never fails the request.
C9_LearningFailureTolerated ==
    \A r \in Requests :
        ~(req[r].pc = "failed" /\ req[r].failed_step = "learn")

\* C10: the 500 response of a failed request identifies the alert and the
\* step that failed: two failed requests with the same response detail are
\* for the same alert and failed at the same step.
C10_FailureIdentifiesAlertAndStep ==
    \A r1, r2 \in Requests :
        (req[r1].pc = "failed" /\ req[r2].pc = "failed"
            /\ req[r1].detail = req[r2].detail)
        => /\ req[r1].alert_id = req[r2].alert_id
           /\ req[r1].failed_step = req[r2].failed_step

\* C11: a request that fails after its external meeting was created leaves
\* that meeting in place in the scheduling service: nothing cancels it.
C11_MeetingLeftInPlace ==
    \A r \in Requests :
        (req[r].pc = "failed" /\ cfg.slotify_api_key # None
            /\ "create_meeting" \in Range(req[r].trace))
        => \E m \in slotify : m.meeting_id = <<"slotify", r>>

\* the external meeting exists and no local Alert or Meeting row does
C11_Witness ==
    \E r \in Requests :
        /\ req[r].pc = "failed"
        /\ req[r].failed_step \in {"update_status", "add_comment", "persist"}
        /\ \E m \in slotify : m.meeting_id = <<"slotify", r>>
        /\ alerts_db = {} /\ meetings_db = {}

\* C12: every row of table alerts has meeting_created = TRUE exactly when its
\* meeting_id is not null.
C12_MeetingCreatedIffMeetingId ==
    \A a \in alerts_db : a.meeting_created <=> a.meeting_id # NoId

\* C13: a transient network failure of an outbound call of the handler
\* surfaces to the webhook caller only when that call was tried
\* max_retries + 1 times.
C13_TransientFailureRetried ==
    \A r \in Requests :
        req[r].transient_tries \in {0, DefaultMaxRetries + 1}

(***************************************************************************)
(* Properties of the security functions (SpecAuth).                        *)
(***************************************************************************)
\* verify_webhook_signature was called with a secret configured, both headers
\* present and a timestamp that is an integer
TimestampChecked ==
    /\ auth.call.fn = "verify_webhook_signature"
    /\ cfg.webhook_secret_key # None
    /\ auth.call.signature # NoHeader
    /\ auth.call.timestamp # NoHeader
    /\ ParsesAsInt(auth.call.timestamp)

TooOld == Outcome(401, "Request timestamp too old. Possible replay attack.")

\* the signature of the call is the right one for its timestamp and body
SignatureCorrect ==
    /\ Decodable(auth.call.request_body)
    /\ auth.call.signature =
           Hmac(cfg.webhook_secret_key,
                Message(auth.call.timestamp, Decode(auth.call.request_body)))

\* C14 as stated: a request whose timestamp differs from the current time by
\* more than 300 seconds is rejected with 401.
C14_RejectsOutsideWindow ==
    TimestampChecked
    => (Abs(auth.call.at - IntOf(auth.call.timestamp) * TicksPerSecond)
            > SignatureWindow * TicksPerSecond
        => auth.call.result = TooOld)

\* C14: a request is rejected with 401 as too old exactly when its timestamp
\* differs by more than 300 from the current time truncated to whole seconds,
\* in either direction and whatever its signature; a difference of exactly
\* 300 is inside the window.
C14_RejectsOutsideWindowInSeconds ==
    TimestampChecked
    => (auth.call.result = TooOld
        <=> Abs(IntTime(auth.call.at) - IntOf(auth.call.timestamp))
                > SignatureWindow)

\* a correctly signed request, 301 seconds old, is rejected
C14_Witness ==
    /\ TimestampChecked
    /\ SignatureCorrect
    /\ IntTime(auth.call.at) - IntOf(auth.call.timestamp) = SignatureWindow + 1
    /\ auth.call.result = TooOld

\* verify_webhook_signature was called, with a secret configured, on the
\* signature a client generated
GeneratedSignatureChecked ==
    /\ auth.call.fn = "verify_webhook_signature"
    /\ cfg.webhook_secret_key # None
    /\ auth.generated # NoSignature
    /\ auth.call.signature = auth.generated.signature

\* body, timestamp and secret are the ones the signature was generated from
AsGenerated ==
    /\ auth.generated.secret_key = cfg.webhook_secret_key
    /\ auth.call.timestamp = auth.generated.timestamp
    /\ auth.call.request_body = Encode(auth.generated.payload)

InsideWindow ==
    /\ ParsesAsInt(auth.call.timestamp)
    /\ Abs(IntTime(auth.call.at) - IntOf(auth.call.timestamp)) <= SignatureWindow

C16_ApiKeyCheck ==
    auth.call.fn = "verify_api_key"
    => LET key == cfg.webhook_api_key
           header == auth.call.api_key
           status == auth.call.status
       IN  /\ key = None => status = 200
           /\ key # None =>
                /\ header \in {None, ""} => status = 401
                /\ (header \notin {None, ""} /\ header # key) => status = 403
                /\ status = 200 <=> header = key

C16_Witness ==
    /\ auth.call.fn = "verify_api_key"
    /\ cfg.webhook_api_key # None
    /\ auth.call.api_key \notin {None, "", cfg.webhook_api_key}
    /\ auth.call.status = 403

(***************************************************************************)
(* More properties of rate_limit_check (SpecRate).                         *)
(***************************************************************************)
StoredOf(st, ip) == IF ip \in DOMAIN st THEN st[ip] ELSE <<>>

\* C17 as stated: a call for one ip leaves the stored timestamps of every
\* other ip as they were.
C17_OtherIpsUntouched ==
    [][\A ip \in IPs :
          ip # rl_last'.ip => StoredOf(store', ip) = StoredOf(store, ip)]_vars

\* C17: a call for one ip leaves the stored timestamps of every other ip
\* that are inside the window as they were, and the outcome of a call is
\* decided by the stored timestamps of its own ip alone.
C17_OtherIpsIndependent ==
    [][/\ \A ip \in IPs :
             ip # rl_last'.ip =>
                YoungAt(StoredOf(store', ip), now', rl_cfg.window_seconds)
                    = YoungAt(StoredOf(store, ip), now', rl_cfg.window_seconds)
       /\ rl_last' # rl_last =>
             (rl_last'.ok <=>
                 Len(YoungAt(StoredOf(store, rl_last'.ip), rl_last'.t2,
                             rl_cfg.window_seconds)) < rl_cfg.max_requests)]_vars

\* a call of one ip is refused while another ip has timestamps in its window
C17_Witness ==
    \E ip, other \in IPs :
        /\ ip # other
        /\ rl_last.ip = ip /\ ~rl_last.ok
        /\ StoredRecent(other) # <<>>
        /\ StoredRecent(ip) # <<>>

\* C18: on a 429 both retry-after values shown, the one in the error detail
\* and the Retry-After header, are between 1 and window_seconds.
C18_RetryAfterShown ==
    rl_last.status = 429 =>
        /\ rl_last.detail_retry_after \in 1..rl_cfg.window_seconds
        /\ rl_last.header_retry_after \in 1..rl_cfg.window_seconds

(***************************************************************************)
(* More properties of retry_with_backoff (SpecRetry).                      *)
(***************************************************************************)
RECURSIVE Pow(_, _)
Pow(b, e) == IF e = 0 THEN 1 ELSE b * Pow(b, e - 1)

DefaultPolicy ==
    /\ rt.max_retries = DefaultMaxRetries
    /\ rt.initial_delay = DefaultInitialDelay
    /\ rt.max_delay = DefaultMaxDelay
    /\ rt.backoff_factor = DefaultBackoffFactor

\* C19: the wait before the n-th retry is
\* min(initial_delay * backoff_factor^(n-1), max_delay); it never exceeds
\* max_delay and never falls below the wait before it; with the defaults the
\* waits are 1, 2, 4; there are at most max_retries waits, one after every
\* failed attempt but the one that ends the run.
C19_BackoffWaits ==
    /\ \A n \in DOMAIN rt.waits :
          /\ rt.waits[n] =
                 MinNat(rt.initial_delay * Pow(rt.backoff_factor, n - 1),
                        rt.max_delay)
          /\ rt.waits[n] <= rt.max_delay
          /\ n > 1 => rt.waits[n - 1] <= rt.waits[n]
    /\ Len(rt.waits) <= rt.max_retries
    /\ DefaultPolicy => IsPrefix(rt.waits, <<1, 2, 4>>)
    /\ rt.pc \in {"call", "sleep"} => Len(rt.waits) = rt.calls
    /\ rt.pc = "raised" => Len(rt.waits) = rt.calls - 1
    /\ rt.pc = "returned" => Len(rt.waits) = rt.calls - 1

\* the default policy used up: three waits of 1, 2 and 4, none after the
\* fourth failure
C19_Witness ==
    /\ DefaultPolicy
    /\ rt.pc = "raised"
    /\ rt.calls = DefaultMaxRetries + 1
    /\ rt.waits = <<1, 2, 4>>

\* C20: when every attempt failed with a retryable error, the error raised
\* is that of the last attempt and it carries a mark of exhausted retries,
\* which an error that was never retried does not carry.
C20_ExhaustedIsTagged ==
    (rt.pc = "raised" /\ AllRetryable(rt.outs)
                      /\ rt.calls = rt.max_retries + 1) =>
        /\ rt.exc.kind = rt.outs[Len(rt.outs)].kind
        /\ rt.exc.code = rt.outs[Len(rt.outs)].code
        /\ "exhausted_retries" \in DOMAIN rt.exc

(***************************************************************************)
(* Properties of execute_parallel_agents (SpecParallel).                   *)
(***************************************************************************)
\* C21: the list returned has one result per input task, result i answers
\* task i, and a task whose agent failed or does not exist has an error
\* marker at its position.
C21_OneResultPerTaskInOrder ==
    par.pc = "returned" =>
        /\ Len(par.results) = Len(par.agent_tasks)
        /\ \A i \in DOMAIN par.results :
              /\ par.results[i].task = i
              /\ ~GetAgent(par.agent_tasks[i]) => par.results[i].kind = "error"

(***************************************************************************)
(* Properties of the multi-agent workflows (SpecWorkflow).                 *)
(***************************************************************************)
ResultKeys(run) == DOMAIN run.result

\* C22: compliance_with_rca calls the compliance check first; the analysis
\* and the reasoning agent are called, in that order, only after a check that
\* reported violations; a returned result has root_cause_analysis and
\* remediation_plan exactly when there was a violation.
C22_RcaIffViolations ==
    \A r \in Runs :
        LET run == wf.runs[r]
        IN  run.workflow = "compliance_with_rca" =>
              /\ IsPrefix(run.calls,
                          <<"check_compliance", "analyze_failure", "solve_problem">>)
              /\ run.violations = 0 => run.calls = <<"check_compliance">>
              /\ run.pc = "returned" =>
                    /\ "compliance_check" \in ResultKeys(run)
                    /\ "root_cause_analysis" \in ResultKeys(run)
                           <=> run.violations >= 1
                    /\ "remediation_plan" \in ResultKeys(run)
                           <=> run.violations >= 1
                    /\ run.violations >= 1 =>
                           run.calls = <<"check_compliance", "analyze_failure",
                                         "solve_problem">>

\* one run returned with violations analysed while another returned without
C22_Witness ==
    \E r, q \in Runs :
        /\ wf.runs[r].workflow = "compliance_with_rca"
        /\ wf.runs[r].pc = "returned" /\ wf.runs[r].violations >= 1
        /\ wf.runs[q].workflow = "compliance_with_rca"
        /\ wf.runs[q].pc = "returned" /\ wf.runs[q].violations = 0

\* C23: a returned intelligent_incident_response run has called the query,
\* the analysis, the compliance check and the learning step in that order,
\* and its result holds the result of each of the four.
C23_AggregateOfFourSteps ==
    \A r \in Runs :
        LET run == wf.runs[r]
        IN  (run.workflow = "intelligent_incident_response"
                 /\ run.pc = "returned") =>
              /\ run.calls = IncidentSteps
              /\ \A i \in DOMAIN IncidentSteps :
                    \E k \in ResultKeys(run) : run.result[k] = IncidentSteps[i]

(***************************************************************************)
(* Properties of the service clients (SpecClient).                         *)
(***************************************************************************)
ClientCalls == {client.prev, client.last} \ {NoOperation}

\* C24: an operation of a client without an API key makes no outbound
\* request and returns a dict with mock = True, and two such calls of the
\* same operation with the same arguments return the same dict.
C24_MockWithoutKey ==
    /\ \A c \in ClientCalls :
          ~c.keyed =>
              /\ ~c.outbound
              /\ "mock" \in DOMAIN c.result
              /\ c.result.mock
    /\ \A c, d \in ClientCalls :
          (~c.keyed /\ ~d.keyed /\ c.op = d.op /\ c.arg = d.arg) =>
              c.result = d.result

(***************************************************************************)
(* Properties of the meeting context lookups (SpecMeeting).                *)
(***************************************************************************)
IsLookup(answer) ==
    answer.fn \in {"get_meeting_context_by_alert",
                   "get_meeting_context_by_meeting_id"}

\* C25: a lookup by alert id or by meeting id never raises; it returns the
\* context of the last process run with the id, and null for an id no
\* process was run with; explain of such a meeting id returns a text with
\* 'No context found' and does not raise.
C25_LookupsReturnStoredOrNull ==
    /\ IsLookup(mctx.answer) =>
          /\ ~mctx.answer.raised
          /\ mctx.answer.known => mctx.answer.result = mctx.answer.latest
          /\ ~mctx.answer.known => mctx.answer.result = Null
    /\ (mctx.answer.fn = "get_meeting_context_by_alert" /\ mctx.answer.known)
          => mctx.answer.result.alert_id = mctx.answer.id
    /\ (mctx.answer.fn = "get_meeting_context_by_meeting_id" /\ mctx.answer.known)
          => mctx.answer.result.meeting_id = mctx.answer.id
    /\ (mctx.answer.fn = "explain_meeting" /\ ~mctx.answer.known) =>
          /\ ~mctx.answer.raised
          /\ mctx.answer.result.text = "No context found"

\* a lookup by an alert id that two meetings were processed with, while the
\* other alert id was never processed
C25_Witness ==
    /\ mctx.answer.fn = "get_meeting_context_by_alert"
    /\ mctx.answer.known
    /\ \A m \in MeetingIds :
          m \in DOMAIN mctx.by_meeting
              /\ mctx.by_meeting[m].alert_id = mctx.answer.id
    /\ \E a \in AlertIds : a \notin DOMAIN mctx.seen_alert

(***************************************************************************)
(* Properties of the urgency, duration and attendee functions (SpecAssess). *)
(***************************************************************************)
Assessments(fn) == {c \in {mctx.prev, mctx.last} : c.fn = fn}

SeverityLevel(severity) ==
    CASE severity = "critical" -> "CRITICAL"
      [] severity = "high" -> "HIGH"
      [] severity = "medium" -> "MEDIUM"
      [] severity = "low" -> "LOW"

SeverityRank(severity) ==
    CASE severity = "critical" -> 4
      [] severity = "high" -> 3
      [] severity = "medium" -> 2
      [] severity = "low" -> 1

\* C26: the score of an urgency lies in the band of the severity, its level
\* is the one the thresholds give for the score, which is the level of the
\* severity, and of two urgencies of one alert type the one of the higher
\* severity has the strictly higher score.
C26_ScoreInSeverityBand ==
    /\ \A c \in Assessments("urgency") :
          /\ c.severity = "critical" => c.urgency.score >= 80
          /\ c.severity = "high" => c.urgency.score >= 60 /\ c.urgency.score < 80
          /\ c.severity = "medium" => c.urgency.score >= 40 /\ c.urgency.score < 60
          /\ c.severity = "low" => c.urgency.score < 40
          /\ c.urgency.level = SeverityLevel(c.severity)
          /\ c.urgency.level = "CRITICAL" <=> c.urgency.score >= 80
          /\ c.urgency.level = "LOW" <=> c.urgency.score < 40
    /\ \A c, d \in Assessments("urgency") :
          (c.alert_type = d.alert_type
              /\ SeverityRank(c.severity) > SeverityRank(d.severity)) =>
                 c.urgency.score > d.urgency.score

\* two urgencies of one alert type whose weight would carry both base scores
\* out of their bands
C26_Witness ==
    \E c, d \in Assessments("urgency") :
        /\ c.alert_type = d.alert_type
        /\ c.severity = "high" /\ d.severity = "medium"
        /\ ScoreUnclamped(mctx.impl, c.severity, c.alert_type) >= 80
        /\ c.urgency.score < 80

\* C27: a recommended duration is 15, 30, 45 or 60 minutes, not below the
\* bucket of the severity, and of two durations for one severity the one for
\* more affected systems is not the shorter.
C27_DurationBuckets ==
    /\ \A c \in Assessments("duration") :
          /\ c.duration \in {15, 30, 45, 60}
          /\ c.duration >= SeverityDuration(c.severity)
    /\ \A c, d \in Assessments("duration") :
          (c.severity = d.severity /\ c.affected_systems >= d.affected_systems)
              => c.duration >= d.duration

\* two durations for one severity, the one for more systems the longer
C27_Witness ==
    \E c, d \in Assessments("duration") :
        /\ c.severity = d.severity
        /\ c.affected_systems > d.affected_systems
        /\ c.duration > d.duration

NoDuplicates(list) ==
    \A i, j \in DOMAIN list : i # j => list[i] # list[j]

Expected(role, wanted, after) ==
    IF wanted /\ ~\E i \in DOMAIN after : after[i] = role
    THEN Append(after, role)
    ELSE after

\* C28: a suggested list is the base attendees of the alert type in their
\* order, then Management for a critical or high severity, then Executive
\* Sponsor for a critical or high severity of a security or compliance type,
\* each only if absent; no role occurs twice.
C28_AttendeesInOrderNoDuplicates ==
    \A c \in Assessments("attendees") :
        LET base == TypicalAttendees(mctx.impl, c.alert_type)
            high == c.severity \in {"critical", "high"}
            sec == Category(mctx.impl, c.alert_type) \in {"security", "compliance"}
            managed == Expected("Management", high, base)
        IN  /\ c.attendees = Expected("Executive Sponsor", high /\ sec, managed)
            /\ IsPrefix(base, c.attendees)
            /\ NoDuplicates(c.attendees)

\* an escalation whose role is among the base attendees already
C28_Witness ==
    \E c \in Assessments("attendees") :
        /\ c.severity \in {"critical", "high"}
        /\ \E i \in DOMAIN TypicalAttendees(mctx.impl, c.alert_type) :
              TypicalAttendees(mctx.impl, c.alert_type)[i]
                  \in {"Management", "Executive Sponsor"}
        /\ Len(c.attendees) >= 2

(***************************************************************************)
(* The order of the webhook's security checks (Spec).                      *)
(***************************************************************************)
Received(r) == req[r].pc # "idle"

\* the requests before r, from r's client, that the rate limiter admitted
CountedBefore(r) ==
    {p \in Requests : p < r /\ req[p].ip = req[r].ip /\ req[p].status # 429}

\* C29: a request that arrives when its client has used up the limit is
\* answered 429 whatever its API key, and only such a request is; a request
\* answered 401 or 403 for its API key has a timestamp in the window of its
\* client: the timestamps stored for a client are those of its requests that
\* were not answered 429.
C29_RateLimitBeforeApiKey ==
    /\ \A r \in Requests :
          Received(r) =>
              (req[r].status = 429
                  <=> Cardinality(CountedBefore(r)) >= HandlerMaxRequests)
    /\ \A ip \in IPs :
          Len(StoredOf(store, ip)) =
              Cardinality({r \in Requests :
                              Received(r) /\ req[r].ip = ip
                                          /\ req[r].status # 429})

\* a request with a wrong API key is answered 429, its client's limit used
\* up by a request that was rejected for its API key
C29_Witness ==
    \E p, r \in Requests :
        /\ p < r /\ req[p].ip = req[r].ip
        /\ req[p].status \in {401, 403}
        /\ req[r].status = 429
        /\ req[r].api_key # cfg.webhook_api_key
        /\ Cardinality(CountedBefore(r)) = HandlerMaxRequests

(***************************************************************************)
(* Concurrent requests of one client and its window (Spec).                *)
(***************************************************************************)
InFlight(r) == req[r].pc \notin {"idle", "rejected", "failed", "done"}

\* C30: whatever the interleaving of the handlers of concurrent requests,
\* the timestamps stored for a client ip that have not expired never number
\* more than max_requests.
C30_WindowNeverOverfull ==
    \A ip \in IPs :
        Len(RecentOf(StoredOf(store, ip), now, DefaultWindowSeconds))
            <= HandlerMaxRequests

\* a request is answered 429 while the handler of an earlier request of the
\* same client is still awaiting a call, the window of the client full
C30_Witness ==
    \E p, r \in Requests :
        /\ p < r /\ req[p].ip = req[r].ip
        /\ InFlight(p)
        /\ req[r].status = 429
        /\ Len(RecentOf(StoredOf(store, req[r].ip), now, DefaultWindowSeconds))
              = HandlerMaxRequests

(***************************************************************************)
(* Redelivered alerts and the two tables (Spec).                           *)
(***************************************************************************)
\* C31: whatever the deliveries of an alert_id and the failures and retries
\* of the outbound calls, the scheduling service holds at most one meeting
\* per alert_id.
C31_OneMeetingPerAlert ==
    \A m1, m2 \in slotify :
        m1.alert_reference = m2.alert_reference => m1 = m2

\* C32: every Alert row with meeting_created true has a Meeting row with
\* the same meeting_id: the two writes of a request both take effect or
\* neither does.
C32_AlertRefersToMeeting ==
    \A a \in alerts_db :
        a.meeting_created =>
            \E m \in meetings_db : m.meeting_id = a.meeting_id

\* C33: after a successful alert webhook, the meeting_id returned and
\* persisted on the Alert and Meeting rows is the meeting_id of the
\* meeting_data that the workflow of that request handed to
\* process_slotify_meeting, the id under which its context is stored.
C33_PersistedIdIsContextId ==
    \A r \in Requests :
        req[r].status = 200 =>
            /\ req[r].meeting_id = req[r].wf_meeting_id
            /\ \A a \in alerts_db :
                  a.request = r => a.meeting_id = req[r].wf_meeting_id
            /\ \A m \in meetings_db :
                  m.request = r => m.meeting_id = req[r].wf_meeting_id

(***************************************************************************)
(* The two rate limit stores (SpecStores).                                 *)
(***************************************************************************)
\* C34: given the same add_request and get_requests calls at the same
\* times, the two stores return the same number of timestamps for a client,
\* two requests with one timestamp included, and rate_limit_check decides
\* the same on either store.
C34_StoresInterchangeable ==
    stores.last.mem = stores.last.redis

(***************************************************************************)
(* The random cleanup and the outcomes of rate_limit_check (SpecTwin).     *)
(***************************************************************************)
\* C35: with window_seconds fixed, two runs of one sequence of
\* rate_limit_check calls that differ only in the calls at which the cleanup
\* fires admit and reject the same calls.
C35_CleanupDoesNotChangeOutcomes ==
    twin.last.a = twin.last.b

\* the cleanup has left the two runs with different stores, and the next
\* call is refused in both
C35_Witness ==
    /\ twin.last.differed
    /\ twin.last.a = 429
    /\ twin.last.b = 429

(***************************************************************************)
(* One attempt budget and one delay progression (SpecRetry).               *)
(***************************************************************************)
Failures(outs) == {i \in DOMAIN outs : RetryableError(outs[i])}

\* C36: timeouts, network errors and 5xx responses in any mix use up one
\* budget of max_retries + 1 attempts and one delay progression: the wait
\* after the n-th of them is min(initial_delay * backoff_factor^(n-1),
\* max_delay) whatever their kinds, and the run raises when the budget is
\* used up; any other exception is raised at once, with no wait after it and
\* no further attempt.
C36_OneBudgetOneProgression ==
    LET n == Len(rt.outs)
    IN  /\ rt.calls = n /\ n <= rt.max_retries + 1
        /\ \A i \in 1..(n - 1) : RetryableError(rt.outs[i])
        /\ Len(rt.waits) = Cardinality(Failures(rt.outs))
                               - (IF rt.pc = "raised" /\ n > 0
                                     /\ RetryableError(rt.outs[n])
                                  THEN 1 ELSE 0)
        /\ \A i \in DOMAIN rt.waits :
              rt.waits[i] =
                  MinNat(rt.initial_delay * Pow(rt.backoff_factor, i - 1),
                         rt.max_delay)
        /\ (rt.pc = "raised" /\ n > 0 /\ RetryableError(rt.outs[n])) =>
              n = rt.max_retries + 1
        /\ (n > 0 /\ rt.outs[n].kind # "ok" /\ ~RetryableError(rt.outs[n])) =>
              /\ rt.pc = "raised"
              /\ rt.exc = rt.outs[n]
              /\ Len(rt.waits) = n - 1

\* a run of four attempts that failed with a timeout, a 5xx response and a
\* network error among them, and raised with three waits behind it
C36_Witness ==
    /\ rt.pc = "raised"
    /\ rt.max_retries = MaxRetriesBound
    /\ rt.calls = rt.max_retries + 1
    /\ Len(rt.waits) = rt.max_retries
    /\ \E i, j, k \in DOMAIN rt.outs :
          /\ rt.outs[i].kind = "TimeoutException"
          /\ rt.outs[j].kind = "HTTPStatusError"
          /\ rt.outs[k].kind = "NetworkError"

(***************************************************************************)
(* orchestration_history (SpecWorkflow).                                   *)
(***************************************************************************)
KnownWorkflow(name) == \E i \in DOMAIN Workflows : Workflows[i] = name

\* the runs whose multi_agent_workflow call returns in this step
Completing(r) == wf.runs[r].pc # "returned" /\ wf'.runs[r].pc = "returned"

\* C37: orchestration_history only grows at its end, by one entry when the
\* run of a known workflow completes, the entry that of the run; a step in
\* which a workflow raises or a workflow name is unknown leaves it as it is,
\* and the unknown name is answered with an error that lists the workflows.
C37_HistoryAppendOnly ==
    [][\A r \in Runs :
          /\ (Completing(r) /\ KnownWorkflow(wf'.runs[r].workflow)) =>
                wf'.history =
                    Append(wf.history,
                           [workflow |-> wf'.runs[r].workflow, run |-> r,
                            result |-> wf'.runs[r].result])
          /\ (Completing(r) /\ ~KnownWorkflow(wf'.runs[r].workflow)) =>
                /\ wf'.history = wf.history
                /\ DOMAIN wf'.runs[r].result = {"error", "available_workflows"}
                /\ wf'.runs[r].result.available_workflows = Workflows
          /\ (\A q \in Runs : ~Completing(q)) => wf'.history = wf.history]_vars

\* one run has completed a known workflow and has the only entry; the other
\* run raised or named an unknown workflow
C37_Witness ==
    \E r, q \in Runs :
        /\ wf.runs[r].pc = "returned" /\ KnownWorkflow(wf.runs[r].workflow)
        /\ Len(wf.history) = 1 /\ wf.history[1].run = r
        /\ \/ wf.runs[q].pc = "raised"
           \/ wf.runs[q].pc = "returned" /\ ~KnownWorkflow(wf.runs[q].workflow)

(***************************************************************************)
(* route_request and its learning task (SpecRoute).                        *)
(***************************************************************************)
KnownType(q) == AgentNameOf(q.request_type) # None

\* C38: a routed request of a known type invokes its agent once, spawns one
\* learning task and returns the agent's result while that task has yet to
\* run; whatever the task does afterwards, the response stays as returned.
\* A request of an unknown type invokes no agent, spawns no task and is
\* answered with an error.
C38_LearningIsDetached ==
    /\ [](\A r \in Routes :
            LET q == route[r]
            IN  /\ (q.pc = "returned" /\ KnownType(q)) =>
                      /\ q.agent_calls = 1 /\ q.spawned = 1
                      /\ q.response = q.result
                      /\ q.response.agent = AgentNameOf(q.request_type)
                /\ (q.pc = "returned" /\ ~KnownType(q)) =>
                      /\ q.agent_calls = 0 /\ q.spawned = 0 /\ q.task = "none"
                      /\ "error" \in DOMAIN q.response
                /\ q.pc # "returned" => q.spawned = 0 /\ q.task = "none")
    /\ [][\A r \in Routes :
            /\ (route[r].pc = "execute" /\ route'[r].pc = "returned") =>
                  route'[r].task = "pending"
            /\ route[r].pc = "returned" =>
                  /\ route'[r].pc = "returned"
                  /\ route'[r].response = route[r].response]_vars

\* the learning task of a request failed after the agent's result had been
\* returned, and the response is still that result
C38_Witness ==
    \E r \in Routes :
        /\ route[r].pc = "returned"
        /\ route[r].task = "failed"
        /\ route[r].response.kind = "result"
        /\ \E q \in Routes : route[q].pc = "returned" /\ ~KnownType(route[q])

====
